---- MODULE Spec2Model ----
(***************************************************************************)
(* A model of the virtual-staging application: the App state machine       *)
(* (src/App.tsx and its earlier revision in src/unnamed/part_000), the     *)
(* ImageUploader and Sidebar handlers that drive it, and the generation    *)
(* and edit clients of the gemini service (src/unnamed/part_004).          *)
(*                                                                         *)
(* JavaScript values are modelled as follows.  null/undefined is NULL.     *)
(* A string built by a template literal is a tuple of its fragments        *)
(* (concatenation is \o).  Array indices are 0-based as in the source;     *)
(* the element at index i of array a is a[i+1].                            *)
(***************************************************************************)
EXTENDS Naturals, Integers, Sequences, FiniteSets, Bags, TLC

VARIABLES
    appVersion,          \* which App revision runs: "App.tsx" or "part_000"
    service,             \* which generateDesignConcept revision is linked in
    stage,               \* App: AppStage
    originalImageFile,   \* App: File | null
    originalImageUrl,    \* App: object URL | null
    designs,             \* App: DesignResult[]
    groundingMetadata,   \* App
    error,               \* App: message | null
    activeDesignIndex,   \* App
    editedImageUrl,      \* App
    isEditing,           \* App
    modalImageUrl,       \* App
    isModalOpen,         \* App (part_000 only)
    locationQuery,       \* ImageUploader
    isGettingLocation,   \* ImageUploader
    editPrompt,          \* Sidebar
    geoReqs,             \* pending navigator.geolocation.getCurrentPosition calls
    genReqs,             \* pending generateDesignConcept promises
    editReqs,            \* pending editImageWithPrompt promises
    crashed,             \* a render threw: the React tree is unmounted
    uploads,             \* history: how many File objects the user has supplied
    last,                \* history: the handler that last ran on the session
    gen,                 \* a generateDesignConcept call on its own: idle, called, settled
    run,                 \* a generateDesignConcept call, one remote call at a time
    fn,                  \* a helper function applied on its own: its input and result
    sidebar              \* the Sidebar component on its own: props, state, pending effect

appVars == <<appVersion, service, stage, originalImageFile, originalImageUrl, designs,
             groundingMetadata, error, activeDesignIndex, editedImageUrl, isEditing,
             modalImageUrl, isModalOpen, locationQuery, isGettingLocation, editPrompt,
             geoReqs, genReqs, editReqs, crashed, uploads, last>>
vars == <<appVars, gen, run, fn, sidebar>>

NULL == "null"

-----------------------------------------------------------------------------
(* Bounds of the model *)

\* requests (geolocation, generation, edit) that may be pending at once
MaxInFlight == 2
\* design entries a planning response may carry (the code asks for 2)
MaxPlans == 3
\* design entries of the planning responses the App's remote answers
MaxDesigns == 2
\* File objects the user supplies in one run of the page
MaxUploads == 2
\* requests in flight at once when the handlers are called directly
MaxCalls == 1
\* largest width and height of an uploaded image, in pixels
MaxSide == 4
\* largest targetDimension (the code passes MAX_DIMENSION)
MaxTarget == 4
\* longest MIME type, in runs of characters
MaxMimeLen == 3
\* longest base64 payload, in runs of characters
MaxPayloadLen == 2
\* longest image reference handed to a data-URL parser, in characters
MaxRefLen == 5

-----------------------------------------------------------------------------
(* Input domains *)

\* every file selection or drop delivers a new File object: the n-th is Files[n]
Files == <<"f1", "f2", "f3">>
AppVersions == {"App.tsx", "part_000"}
Services == {"parallel", "seqJson", "seqDelim"}
Stages == {"upload", "generating", "results", "error"}
Titles == <<"A", "B", "C", "D">>
Images == {"i1", "i2"}
EditImages == {"e1"}
Groundings == {NULL, "gm"}
\* text typed into an input: empty, whitespace only, or with content
Texts == {<<>>, <<" ">>, <<" ", "x", " ">>}

\* URL.createObjectURL(file)
createObjectURL(f) ==
    CASE f = "f1" -> "blob:f1" [] f = "f2" -> "blob:f2" [] OTHER -> "blob:f3"

\* String.prototype.trim on a sequence of characters
RECURSIVE TrimLeft(_)
TrimLeft(s) == IF s # <<>> /\ Head(s) = " " THEN TrimLeft(Tail(s)) ELSE s
RECURSIVE TrimRight(_)
TrimRight(s) == IF s # <<>> /\ s[Len(s)] = " " THEN TrimRight(SubSeq(s, 1, Len(s) - 1)) ELSE s
trim(s) == TrimRight(TrimLeft(s))

\* a[i] of a JavaScript array is defined
Defined(a, i) == i + 1 \in DOMAIN a
At(a, i) == a[i + 1]

-----------------------------------------------------------------------------
(* The remote generative capability: what a call may answer *)

\* one entry of the planning response's "designs" array
PlanEntry(k) == [designTitle |-> Titles[k],
                 designDescription |-> <<"description of ", Titles[k]>>,
                 imagePrompt |-> <<"prompt for ", Titles[k]>>]

\* the plan lists of length 0..n with entry k at place k
PlanPrefixes(n) == {[k \in 1..m |-> PlanEntry(k)] : m \in 0..n}

\* A planning call is rejected, or answers a text that is: no structure at all,
\* braces around invalid JSON, a JSON object without "designs", a JSON object
\* with a designs array, or the ##T1##..##D2## delimiter format (two entries).
PlanResponse(kind, fmt, d) == [kind |-> kind, fmt |-> fmt, designs |-> d]
PlanResponsesOver(lists) ==
    {PlanResponse("reject", "none", <<>>)}
    \cup {PlanResponse("text", f, <<>>) : f \in {"garbage", "badjson", "jsonNoDesigns"}}
    \cup {PlanResponse("text", "json", d) : d \in lists}
    \cup {PlanResponse("text", "delim", [k \in 1..2 |-> PlanEntry(k)])}

\* An image-synthesis call is rejected, answers without an inline image part,
\* or answers with an image.
SynthResponses == {"reject", "noimage"} \cup Images

\* `data:${mimeType};base64,${data}` of the inline image part img
dataUrl(img) == IF img = "i1" THEN "data:i1" ELSE "data:i2"

\* cropToOriginalAspectRatio resolves with canvas.toDataURL of the cropped square
croppedUrl(url) == IF url = "data:i1" THEN "crop:i1" ELSE "crop:i2"

(* error messages *)
NoError == <<>>
UploadFirst == <<"Please upload an image first.">>
UnknownError == <<"An unknown error occurred.">>
RemoteError == <<"remote call failed">>
ReadError == <<"Failed to read file.">>
CropError == <<"Image load error during cropping">>
PlanInvalid == <<"The AI failed to return a valid design plan. Please try again.">>
PlanMalformed == <<"The AI's design plan was incomplete or malformed.">>
MissingImage(title) ==
    <<"The AI model did not return a redesigned image for \"", title, "\". Please try again.">>
NoJsonFound == <<"Could not find a valid JSON object in the model's response.">>
JsonSyntaxError == <<"SyntaxError">>
NotIterable == <<"textDesigns is not iterable">>
DelimUnexpected ==
    <<"Could not parse the design concepts from the model's response. The format was unexpected.">>
EditMissing == <<"The AI model did not return an edited image. Please try a different prompt.">>
EditFailed == <<"Failed to generate edited image.">>
FailedToGenerate(msg) == <<"Failed to generate design concepts. ">> \o msg

-----------------------------------------------------------------------------
(* generateDesignConcept as the caller sees it: the promise's settlement as a  *)
(* function of what the file reads and the remote calls answered.              *)
(* x.prep: the local reads of the file succeed; x.plan: the planning answer;   *)
(* x.synth[k]: the answer of the k-th synthesis call; x.crop[k]: the k-th crop *)
(* loads its image; x.grounding: candidates[0].groundingMetadata.              *)

Resolve(d, g) == [ok |-> TRUE, designs |-> d, groundingMetadata |-> g, message |-> NoError]
Reject(msg) == [ok |-> FALSE, designs |-> <<>>, groundingMetadata |-> NULL, message |-> msg]

Min(S) == CHOOSE m \in S : \A n \in S : m <= n

\* response.candidates?.[0]?.content?.parts?.find(part => part.inlineData)
hasInlineData(resp) == resp \in Images

\* a faulty generateParallel: a response without an image part is passed over
generateParallelSkipping(x) ==
    LET d == x.plan.designs
        kept == {k \in 1..2 : hasInlineData(x.synth[k])}
    IN  IF ~x.prep THEN Reject(ReadError)
        ELSE IF x.plan.kind = "reject" THEN Reject(RemoteError)
        ELSE IF x.plan.fmt \notin {"json", "jsonNoDesigns"} THEN Reject(PlanInvalid)
        ELSE IF x.plan.fmt = "jsonNoDesigns" \/ Len(d) # 2 THEN Reject(PlanMalformed)
        ELSE IF \E k \in 1..2 : x.synth[k] = "reject" THEN Reject(RemoteError)
        ELSE Resolve(SelectSeq([k \in 1..2 |->
                                  [designTitle |-> d[k].designTitle,
                                   redesignedImageUrl |->
                                       IF k \in kept THEN croppedUrl(dataUrl(x.synth[k]))
                                       ELSE NULL,
                                   designDescription |-> d[k].designDescription]],
                               LAMBDA e : e.redesignedImageUrl # NULL),
                     x.grounding)

\* first revision: two plans, both synthesis calls issued, then joined
generateParallel(x) ==
    LET d == x.plan.designs
        missing == {k \in 1..2 : ~hasInlineData(x.synth[k])}
    IN  IF ~x.prep THEN Reject(ReadError)
        ELSE IF x.plan.kind = "reject" THEN Reject(RemoteError)
        ELSE IF x.plan.fmt \notin {"json", "jsonNoDesigns"} THEN Reject(PlanInvalid)
        ELSE IF x.plan.fmt = "jsonNoDesigns" \/ Len(d) # 2 THEN Reject(PlanMalformed)
        ELSE IF \E k \in 1..2 : x.synth[k] = "reject" THEN Reject(RemoteError)
        ELSE IF missing # {} THEN Reject(MissingImage(d[Min(missing)].designTitle))
        ELSE IF \E k \in 1..2 : ~x.crop[k] THEN Reject(CropError)
        ELSE Resolve([k \in 1..2 |->
                        [designTitle |-> d[k].designTitle,
                         redesignedImageUrl |-> croppedUrl(dataUrl(x.synth[k])),
                         designDescription |-> d[k].designDescription]],
                     x.grounding)

\* the for loop of the later revisions: one awaited call per planned design;
\* acc holds the designs pushed so far
RECURSIVE synthLoop(_, _, _, _, _)
synthLoop(d, synth, k, acc, g) ==
    IF k > Len(d) THEN Resolve(acc, g)
    ELSE IF synth[k] = "reject" THEN Reject(RemoteError)
    ELSE IF hasInlineData(synth[k])
         THEN synthLoop(d, synth, k + 1,
                        Append(acc, d[k] @@ [redesignedImageUrl |-> dataUrl(synth[k])]), g)
         ELSE synthLoop(d, synth, k + 1, acc, g)

\* second revision: JSON plan, sequential synthesis
generateSeqJson(x) ==
    IF x.plan.kind = "reject" THEN Reject(RemoteError)
    ELSE IF x.plan.fmt \in {"garbage", "delim"} THEN Reject(NoJsonFound)
    ELSE IF x.plan.fmt = "badjson" THEN Reject(JsonSyntaxError)
    ELSE IF x.plan.fmt = "jsonNoDesigns" THEN Reject(NotIterable)
    ELSE synthLoop(x.plan.designs, x.synth, 1, <<>>, x.grounding)

\* parseResponse of the third revision: two titles and two descriptions
parseResponse(d) ==
    [k \in 1..2 |-> [designTitle |-> d[k].designTitle,
                     designDescription |-> d[k].designDescription]]

\* third revision: delimiter plan, sequential synthesis
generateSeqDelim(x) ==
    IF x.plan.kind = "reject" THEN Reject(RemoteError)
    ELSE IF x.plan.fmt # "delim" THEN Reject(DelimUnexpected)
    ELSE synthLoop(parseResponse(x.plan.designs), x.synth, 1, <<>>, x.grounding)

generateDesignConcept(svc, x) ==
    CASE svc = "parallel" -> generateParallel(x)
      [] svc = "seqJson" -> generateSeqJson(x)
      [] svc = "seqDelim" -> generateSeqDelim(x)

\* what the App's remote may answer: plans in request order, one image
AppAnswers ==
    [prep : BOOLEAN,
     plan : PlanResponsesOver(PlanPrefixes(MaxDesigns)),
     synth : [1..MaxDesigns -> {"reject", "noimage", "i1"}],
     crop : [1..2 -> BOOLEAN],
     grounding : Groundings]

\* the settlements of a generateDesignConcept promise, per revision
SettlementsParallel == {generateParallel(x) : x \in AppAnswers}
SettlementsSeqJson == {generateSeqJson(x) : x \in AppAnswers}
SettlementsSeqDelim == {generateSeqDelim(x) : x \in AppAnswers}
Settlements(svc) ==
    CASE svc = "parallel" -> SettlementsParallel
      [] svc = "seqJson" -> SettlementsSeqJson
      [] svc = "seqDelim" -> SettlementsSeqDelim

-----------------------------------------------------------------------------
(* The letterbox geometry of resizeImage and cropToOriginalAspectRatio.  A     *)
(* JavaScript number is modelled as the exact quotient [n, d]; the two         *)
(* functions apply the same operations in the same order to the same values.   *)

Q(n, d) == [n |-> n, d |-> d]
QInt(k) == Q(k, 1)
QDiv(a, b) == Q(a.n * b.d, a.d * b.n)
QMul(a, b) == Q(a.n * b.n, a.d * b.d)
QSub(a, b) == Q(a.n * b.d - b.n * a.d, a.d * b.d)
QAdd(a, b) == Q(a.n * b.d + b.n * a.d, a.d * b.d)
QEq(a, b) == a.n * b.d = b.n * a.d
QGt(a, b) == a.n * b.d > b.n * a.d
\* conversion to the unsigned long of canvas.width / canvas.height
ToLength(a) == a.n \div a.d

Rect(branch, x, y, w, h) == [branch |-> branch, x |-> x, y |-> y, width |-> w, height |-> h]

\* resizeImage: the rectangle the image is drawn into in the padded square
resizeImage(imgWidth, imgHeight, targetDimension) ==
    LET aspectRatio == QDiv(QInt(imgWidth), QInt(imgHeight))
        landscape == QGt(aspectRatio, QInt(1))
        newWidth == IF landscape THEN QInt(targetDimension)
                    ELSE QMul(QInt(targetDimension), aspectRatio)
        newHeight == IF landscape THEN QDiv(QInt(targetDimension), aspectRatio)
                     ELSE QInt(targetDimension)
    IN  Rect(IF landscape THEN "landscape" ELSE "portraitOrSquare",
             QDiv(QSub(QInt(targetDimension), newWidth), QInt(2)),
             QDiv(QSub(QInt(targetDimension), newHeight), QInt(2)),
             newWidth, newHeight)

\* a faulty crop: the aspect ratio is taken as height over width
cropSwapped(originalWidth, originalHeight, targetDimension) ==
    resizeImage(originalHeight, originalWidth, targetDimension)

\* cropToOriginalAspectRatio: the source rectangle it copies out of the square
cropToOriginalAspectRatio(originalWidth, originalHeight, targetDimension) ==
    LET aspectRatio == QDiv(QInt(originalWidth), QInt(originalHeight))
        landscape == QGt(aspectRatio, QInt(1))
        contentWidth == IF landscape THEN QInt(targetDimension)
                        ELSE QMul(QInt(targetDimension), aspectRatio)
        contentHeight == IF landscape THEN QDiv(QInt(targetDimension), aspectRatio)
                         ELSE QInt(targetDimension)
    IN  Rect(IF landscape THEN "landscape" ELSE "portraitOrSquare",
             QDiv(QSub(QInt(targetDimension), contentWidth), QInt(2)),
             QDiv(QSub(QInt(targetDimension), contentHeight), QInt(2)),
             contentWidth, contentHeight)

-----------------------------------------------------------------------------
(* Data URLs.  A string is the sequence of its characters; a run of characters *)
(* that holds none of ':', ';', ',' is written as one element.                 *)

\* undefined, where a string is expected
UNDEFINED == <<"undefined">>

\* String.prototype.indexOf / lastIndexOf of one character: 0-based, -1 if absent
indexOf(s, c) ==
    IF \E i \in DOMAIN s : s[i] = c
    THEN (CHOOSE i \in DOMAIN s : s[i] = c /\ \A j \in 1..(i - 1) : s[j] # c) - 1
    ELSE -1
lastIndexOf(s, c) ==
    IF \E i \in DOMAIN s : s[i] = c
    THEN (CHOOSE i \in DOMAIN s : s[i] = c /\ \A j \in (i + 1)..Len(s) : s[j] # c) - 1
    ELSE -1
\* String.prototype.substring(start, end) for 0 <= start <= end <= length
substring(s, start, end) == SubSeq(s, start + 1, end)

\* String.prototype.split(sep): the pieces between the separators
RECURSIVE split(_, _)
split(s, sep) ==
    LET i == indexOf(s, sep)
    IN  IF i = -1 THEN <<s>>
        ELSE <<substring(s, 0, i)>> \o split(substring(s, i + 1, Len(s)), sep)

\* header.match(/:(.*?);/): the match starts at the leftmost ':' that a ';'
\* follows and the lazy group ends at the first ';' after it.  The result is
\* <<match, group 1>>, or <<>> for null.
matchMime(header) ==
    LET i == indexOf(header, ":")
        rest == substring(header, i + 1, Len(header))
        j == indexOf(rest, ";")
    IN  IF i = -1 \/ j = -1 THEN <<>>
        ELSE <<<<":">> \o substring(rest, 0, j) \o <<";">>, substring(rest, 0, j)>>

Part(mimeType, data) == [threw |-> FALSE, error |-> NoError,
                         inlineData |-> [mimeType |-> mimeType, data |-> data]]
Throw(msg) == [threw |-> TRUE, error |-> msg,
               inlineData |-> [mimeType |-> UNDEFINED, data |-> UNDEFINED]]

\* a faulty dataUrlToPart: the whole match is taken for the MIME type
dataUrlToPartWholeMatch(ref) ==
    LET arr == split(ref, ",")
        mimeMatch == matchMime(At(arr, 0))
    IN  IF Len(arr) < 2 THEN Throw(<<"Invalid data URL">>)
        ELSE IF mimeMatch = <<>> \/ At(mimeMatch, 0) = <<>>
             THEN Throw(<<"Could not parse MIME type from data URL">>)
        ELSE Part(At(mimeMatch, 0), At(arr, 1))

\* dataUrlToPart of the first revision
dataUrlToPart(ref) ==
    LET arr == split(ref, ",")
        mimeMatch == matchMime(At(arr, 0))
    IN  IF Len(arr) < 2 THEN Throw(<<"Invalid data URL">>)
        ELSE IF mimeMatch = <<>> \/ At(mimeMatch, 1) = <<>>
             THEN Throw(<<"Could not parse MIME type from data URL">>)
        ELSE Part(At(mimeMatch, 1), At(arr, 1))

\* dataUrlToGenerativePart of the second and third revision
dataUrlToGenerativePart(ref) ==
    LET arr == split(ref, ",")
        header == At(arr, 0)
        data == IF Defined(arr, 1) THEN At(arr, 1) ELSE UNDEFINED
        m == matchMime(header)
        mimeType == IF m = <<>> \/ At(m, 1) = <<>> THEN <<"image/png">> ELSE At(m, 1)
    IN  Part(mimeType, data)

\* `data:${mimeType};base64,${data}` of editImageWithPrompt and generateDesignConcept
newImageUrl(mimeType, data) == <<"data", ":">> \o mimeType \o <<";", "base64", ",">> \o data

\* the remote call editImageWithPrompt issues for a base reference, if any
editRequest(svc, baseImageUrl) ==
    LET imagePart == IF svc = "parallel" THEN dataUrlToPart(baseImageUrl)
                     ELSE dataUrlToGenerativePart(baseImageUrl)
    IN  [issued |-> ~imagePart.threw, error |-> imagePart.error,
         imagePart |-> imagePart.inlineData]

\* the strings of length lo..hi over an alphabet
StringsOver(A, lo, hi) == UNION {[1..n -> A] : n \in lo..hi}

\* MIME types (type "/" subtype, and more) and base64 payloads
MimeTypes == StringsOver({"image", "/", "png"}, 1, MaxMimeLen)
Payloads == StringsOver({"QUJD", "+", "/", "="}, 0, MaxPayloadLen)
\* the references a caller may hand to a parser
References == StringsOver({":", ";", ",", "x"}, 0, MaxRefLen)

-----------------------------------------------------------------------------
(* The planning call's request.  The prompt is the sequence of its fragments;  *)
(* a location value is one fragment: a query is its text, coordinates are      *)
(* <<latitude, longitude>>.                                                    *)

Latitudes == {"lat1", "lat2"}
Longitudes == {"lng1", "lng2"}
Queries == {<<"x">>, <<"x", " ", "y">>}
Coordinates == Latitudes \X Longitudes

\* LocationState: null, {type: 'query', value}, {type: 'coords', value}
NoLocation == [type |-> NULL, value |-> <<>>]
LocationStates ==
    {NoLocation}
    \cup {[type |-> "query", value |-> q] : q \in Queries}
    \cup {[type |-> "coords", value |-> c] : c \in Coordinates}

\* no retrievalConfig in the request
NoHint == <<>>

PlannerRequest(text, hintIn, latLng) == [text |-> text, hintIn |-> hintIn, latLng |-> latLng]

\* a faulty planning request: coordinates are also written into the prompt
plannerRequestEmbeddingCoords(svc, location) ==
    PlannerRequest(
        <<<<"designPlannerPrompt: constraints">>>>
        \o (IF location.type = NULL THEN <<>>
            ELSE <<<<"The user's location is specified as: \"">>, location.value,
                   <<"\". Ground your search for local stores based on this address.">>>>)
        \o <<<<"designPlannerPrompt: concepts and task">>>>,
        IF location.type = "coords" THEN "toolConfig" ELSE "none",
        IF location.type = "coords" THEN location.value ELSE NoHint)

\* the generateContent parameters of the planning call: the text of its parts,
\* and the latLng of the retrievalConfig with the parameter that carries it
plannerRequest(svc, location) ==
    IF svc = "parallel"
    THEN PlannerRequest(
             <<<<"designPlannerPrompt: constraints">>>>
             \o (IF location.type = "query"
                 THEN <<<<"The user's location is specified as: \"">>, location.value,
                        <<"\". Ground your search for local stores based on this address.">>>>
                 ELSE <<>>)
             \o <<<<"designPlannerPrompt: concepts and task">>>>,
             IF location.type = "coords" THEN "toolConfig" ELSE "none",
             IF location.type = "coords" THEN location.value ELSE NoHint)
    ELSE PlannerRequest(
             <<<<"Analyze this room and provide two redesign concepts as instructed.">>>>
             \o (IF location.type = "query"
                 THEN <<<<"User location query: \"">>, location.value, <<"\"">>>>
                 ELSE <<>>),
             IF location.type = "coords" THEN "config.toolConfig" ELSE "none",
             IF location.type = "coords" THEN <<location.value[1], location.value[2]>>
             ELSE NoHint)

-----------------------------------------------------------------------------
(* The planning response's text, JSON strategy.  The text is the sequence of   *)
(* its characters, with "designs": and a design entry's members each written  *)
(* as one element; an entry is named by its title.                             *)

EntryTitles == {Titles[1], Titles[2], Titles[3]}
parsedEntry(title) == PlanEntry(CHOOSE k \in DOMAIN Titles : Titles[k] = title)

\* {"designs": [{...}, ...]} with the entries of the given titles
RECURSIVE entriesText(_)
entriesText(titles) ==
    IF titles = <<>> THEN <<>>
    ELSE <<"{", Head(titles), "}">> \o entriesText(Tail(titles))
planObjectText(titles) == <<"{", "\"designs\":", "[">> \o entriesText(titles) \o <<"]", "}">>

\* JSON.parse: the value of a text that is an object with a designs array of
\* entries, or the empty object; any other text is a SyntaxError
RECURSIVE entriesOf(_)
entriesOf(str) ==
    IF str = <<>> THEN [ok |-> TRUE, designs |-> <<>>]
    ELSE IF Len(str) >= 3 /\ str[1] = "{" /\ str[2] \in EntryTitles /\ str[3] = "}"
         THEN LET rest == entriesOf(SubSeq(str, 4, Len(str)))
              IN  [ok |-> rest.ok, designs |-> <<parsedEntry(str[2])>> \o rest.designs]
    ELSE [ok |-> FALSE, designs |-> <<>>]
JSONparse(str) ==
    IF str = <<"{", "}">> THEN [ok |-> TRUE, hasDesigns |-> FALSE, designs |-> <<>>]
    ELSE IF /\ Len(str) >= 5
            /\ SubSeq(str, 1, 3) = <<"{", "\"designs\":", "[">>
            /\ SubSeq(str, Len(str) - 1, Len(str)) = <<"]", "}">>
            /\ entriesOf(SubSeq(str, 4, Len(str) - 2)).ok
         THEN [ok |-> TRUE, hasDesigns |-> TRUE,
               designs |-> entriesOf(SubSeq(str, 4, Len(str) - 2)).designs]
    ELSE [ok |-> FALSE, hasDesigns |-> FALSE, designs |-> <<>>]

Plans(d) == [ok |-> TRUE, designs |-> d, error |-> NoError]
NoPlans(msg) == [ok |-> FALSE, designs |-> <<>>, error |-> msg]

\* first revision: the designs the synthesis calls are mapped over, or the error
parsePlanParallel(text) ==
    LET textResponse == trim(text)
        startIndex == indexOf(textResponse, "{")
        endIndex == lastIndexOf(textResponse, "}")
        parsedResponse == JSONparse(substring(textResponse, startIndex, endIndex + 1))
    IN  IF startIndex = -1 \/ endIndex = -1 \/ endIndex < startIndex THEN NoPlans(PlanInvalid)
        ELSE IF ~parsedResponse.ok THEN NoPlans(PlanInvalid)
        ELSE IF ~parsedResponse.hasDesigns \/ Len(parsedResponse.designs) # 2
             THEN NoPlans(PlanMalformed)
        ELSE Plans(parsedResponse.designs)

\* second revision: the textDesigns the for loop iterates over, or the error
parsePlanSeqJson(text) ==
    LET jsonString == trim(text)
        jsonStartIndex == indexOf(jsonString, "{")
        jsonEndIndex == lastIndexOf(jsonString, "}")
        resultJson == JSONparse(substring(jsonString, jsonStartIndex, jsonEndIndex + 1))
    IN  IF ~(jsonStartIndex # -1 /\ jsonEndIndex # -1 /\ jsonEndIndex > jsonStartIndex)
        THEN NoPlans(NoJsonFound)
        ELSE IF ~resultJson.ok THEN NoPlans(JsonSyntaxError)
        ELSE IF ~resultJson.hasDesigns THEN NoPlans(NotIterable)
        ELSE Plans(resultJson.designs)

parsePlan(svc, text) == IF svc = "parallel" THEN parsePlanParallel(text) ELSE parsePlanSeqJson(text)

\* what surrounds the object in a response: nothing, blanks, prose, a stray brace
Surroundings == {<<>>, <<" ">>, <<"w">>, <<"{">>, <<"}">>}
\* what the model answers in place of the object
PlanBodies ==
    {[kind |-> "object", titles |-> t, text |-> planObjectText(t)] :
        t \in StringsOver(EntryTitles, 0, MaxPlans)}
    \cup {[kind |-> "empty object", titles |-> <<>>, text |-> <<"{", "}">>],
          [kind |-> "prose", titles |-> <<>>, text |-> <<"w">>],
          [kind |-> "unclosed", titles |-> <<>>, text |-> <<"{", "\"designs\":", "[">>],
          [kind |-> "unopened", titles |-> <<>>, text |-> <<"]", "}">>]}

-----------------------------------------------------------------------------
(* generateDesign of the single-design service.  The product response's     *)
(* text is a sequence of fragments: prose, the fences of a markdown code    *)
(* block, and inside them the brackets of an array and one fragment per     *)
(* item, naming the object it describes.  Numbers are rationals.            *)

MaxObjects == 2

Box(top, left, width, height) ==
    [top |-> top, left |-> left, width |-> width, height |-> height]
\* what JSON.parse makes of an item: an object with or without its members
ParsedObject(name, boxes) ==
    [isObject |-> TRUE, hasObjectName |-> TRUE, hasProducts |-> TRUE,
     objectName |-> name, boundingBox |-> boxes]
productItem(name) ==
    CASE name = "sofa" -> ParsedObject(name, <<Box(Q(5, 10), Q(2, 10), Q(4, 10), Q(3, 10))>>)
      [] name = "wide" -> ParsedObject(name, <<Box(Q(1, 10), Q(8, 10), Q(4, 10), Q(3, 10))>>)
      [] name = "tall" -> ParsedObject(name, <<Box(Q(7, 10), Q(0, 10), Q(10, 10), Q(6, 10))>>)
      [] name = "pixels" -> ParsedObject(name, <<Box(Q(120, 1), Q(40, 1), Q(300, 1), Q(200, 1))>>)
      [] name = "negative" -> ParsedObject(name, <<Box(Q(2, 10), Q(-1, 10), Q(4, 10), Q(3, 10))>>)
      [] name = "unboxed" -> ParsedObject(name, <<>>)
      [] name = "unnamed" -> [ParsedObject(name, <<Box(Q(5, 10), Q(2, 10), Q(4, 10), Q(3, 10))>>)
                                EXCEPT !.hasObjectName = FALSE]
      [] name = "unsourced" -> [ParsedObject(name, <<Box(Q(5, 10), Q(2, 10), Q(4, 10), Q(3, 10))>>)
                                EXCEPT !.hasProducts = FALSE]
      [] OTHER -> [ParsedObject(name, <<>>) EXCEPT !.isObject = FALSE,
                        !.hasObjectName = FALSE, !.hasProducts = FALSE]
ItemNames == {"sofa", "wide", "tall", "pixels", "negative", "unboxed", "unnamed", "unsourced", "7"}

\* the opening fence of a json code block with its newline, and the newline
\* with the closing fence
FenceOpen == "fence json"
FenceClose == "fence"
productsText(names) == <<"[">> \o names \o <<"]">>

\* responseText.match(/```json\n([\s\S]*?)\n```/): the shortest run between the
\* first opening fence and the closing fence that follows it
matchJsonFence(responseText) ==
    LET opens == {i \in DOMAIN responseText : responseText[i] = FenceOpen}
        firstClose(i) == {j \in DOMAIN responseText :
                             /\ j > i /\ responseText[j] = FenceClose
                             /\ \A k \in (i + 1)..(j - 1) : responseText[k] # FenceClose}
        found == {i \in opens : firstClose(i) # {} /\ \A k \in opens : firstClose(k) # {} => i <= k}
    IN  IF found = {} THEN [matched |-> FALSE, group |-> <<>>]
        ELSE LET i == CHOOSE x \in found : TRUE
                 j == CHOOSE y \in firstClose(i) : TRUE
             IN  [matched |-> TRUE, group |-> SubSeq(responseText, i + 1, j - 1)]

\* JSON.parse of the captured text: an array of items, an object, or a SyntaxError
JSONparseArray(str) ==
    IF str = <<"{", "}">> THEN [ok |-> TRUE, isArray |-> FALSE, items |-> <<>>]
    ELSE IF /\ Len(str) >= 2 /\ str[1] = "[" /\ str[Len(str)] = "]"
            /\ \A i \in 2..(Len(str) - 1) : str[i] \in ItemNames
         THEN [ok |-> TRUE, isArray |-> TRUE,
               items |-> [i \in 1..(Len(str) - 2) |-> productItem(str[i + 1])]]
    ELSE [ok |-> FALSE, isArray |-> FALSE, items |-> <<>>]

\* the in operator on an item that is not an object throws a TypeError inside the try
parseProductResponse(responseText) ==
    LET jsonMatch == matchJsonFence(responseText)
        parsed == JSONparseArray(jsonMatch.group)
    IN  IF jsonMatch.matched /\ jsonMatch.group # <<>>
        THEN IF ~parsed.ok THEN <<>>
             ELSE IF ~parsed.isArray THEN <<>>
             ELSE IF \E i \in DOMAIN parsed.items : ~parsed.items[i].isObject THEN <<>>
             ELSE IF \A i \in DOMAIN parsed.items :
                        parsed.items[i].hasObjectName /\ parsed.items[i].hasProducts
                  THEN parsed.items
             ELSE <<>>
        ELSE <<>>

CouldNotGenerate == <<"Could not generate a new image.">>
\* generateDesign once the two remote calls have answered: hasImage says whether
\* the first response carries an inline image part
generateDesign(hasImage, mimeType, data, responseText) ==
    IF ~hasImage
    THEN [ok |-> FALSE, message |-> CouldNotGenerate, imageUrl |-> <<>>,
          identifiedObjects |-> <<>>]
    ELSE [ok |-> TRUE, message |-> NoError, imageUrl |-> newImageUrl(mimeType, data),
          identifiedObjects |-> parseProductResponse(responseText)]

\* what the product finder answers inside or in place of the code block
ProductBodies ==
    {productsText(n) : n \in StringsOver(ItemNames, 0, MaxObjects)}
        \cup {<<"{", "}">>, <<"w">>, <<"[">>, <<>>}

-----------------------------------------------------------------------------
(* editImageWithPrompt as the caller sees it.  x.parse: the base reference is  *)
(* a well-formed data URL; x.resp: the answer of the synthesis call.           *)

EditAnswers == [parse : BOOLEAN, resp : {"reject", "noimage"} \cup EditImages]

\* first revision: dataUrlToPart throws on a malformed reference
editImageWithPrompt(x) ==
    IF ~x.parse THEN [ok |-> FALSE, url |-> NULL, message |-> <<"Invalid data URL">>]
    ELSE IF x.resp = "reject" THEN [ok |-> FALSE, url |-> NULL, message |-> RemoteError]
    ELSE IF x.resp = "noimage" THEN [ok |-> FALSE, url |-> NULL, message |-> EditMissing]
    ELSE [ok |-> TRUE, url |-> x.resp, message |-> NoError]

EditSettlements == {editImageWithPrompt(x) : x \in EditAnswers}

-----------------------------------------------------------------------------
(* The App component and the components it renders.  A handler is a function   *)
(* from the component state (a record of the variables) to the state after it. *)

Cur == [stage |-> stage, originalImageFile |-> originalImageFile,
        originalImageUrl |-> originalImageUrl, designs |-> designs,
        groundingMetadata |-> groundingMetadata, error |-> error,
        activeDesignIndex |-> activeDesignIndex, editedImageUrl |-> editedImageUrl,
        isEditing |-> isEditing, modalImageUrl |-> modalImageUrl,
        isModalOpen |-> isModalOpen, locationQuery |-> locationQuery,
        isGettingLocation |-> isGettingLocation, editPrompt |-> editPrompt,
        geoReqs |-> geoReqs, genReqs |-> genReqs, editReqs |-> editReqs,
        crashed |-> crashed]

\* the modal's initial (and reset) image: null in App.tsx, '' in part_000
NoModalImage == IF appVersion = "App.tsx" THEN NULL ELSE ""

\* {modalImageUrl && <Modal/>} in App.tsx, {isModalOpen && <Modal/>} in part_000
ModalOpen(s) == IF appVersion = "App.tsx" THEN s.modalImageUrl # NULL ELSE s.isModalOpen

\* pending requests are bags: the order of issue decides nothing
Add(b, r) == b (+) SetToBag({r})
Remove(b, r) == b (-) SetToBag({r})
Pending(b) == BagToSet(b)

InFlight(s) == BagCardinality(s.geoReqs) + BagCardinality(s.genReqs)
               + BagCardinality(s.editReqs)

\* the callbacks of an unmounted ImageUploader stay pending without a component
Orphaned(b) ==
    LET n(r) == IF r \in Pending(b) THEN b[r] ELSE 0
        T == {[r EXCEPT !.live = FALSE] : r \in Pending(b)}
    IN  [t \in T |-> n(t) + n([t EXCEPT !.live = TRUE])]

handleImageUpload(s, file) ==
    [s EXCEPT !.originalImageFile = file, !.originalImageUrl = createObjectURL(file)]

\* a faulty handleGenerate: the guard on the image is missing
handleGenerateUnguarded(s, file, location) ==
    [s EXCEPT !.stage = "generating", !.error = NoError,
              !.genReqs = Add(@, [file |-> file, location |-> location])]

\* handleGenerate up to its await; file is the originalImageFile its closure holds
handleGenerate(s, file, location) ==
    IF file = NULL
    THEN [s EXCEPT !.error = UploadFirst, !.stage = "error"]
    ELSE LET t == [s EXCEPT !.stage = "generating", !.error = NoError,
                            !.genReqs = Add(@, [file |-> file, location |-> location])]
         IN  IF appVersion = "App.tsx" THEN t
             ELSE [t EXCEPT !.editedImageUrl = NULL, !.activeDesignIndex = 0]

\* a faulty continuation: the catch block stores the message and leaves the stage
generateSettledSwallowing(s, o) ==
    IF o.ok
    THEN [s EXCEPT !.designs = o.designs, !.groundingMetadata = o.groundingMetadata,
                   !.stage = "results"]
    ELSE [s EXCEPT !.error = FailedToGenerate(o.message)]

\* handleGenerate after its await: the try block's tail, or the catch block
generateSettled(s, o) ==
    IF o.ok
    THEN [s EXCEPT !.designs = o.designs, !.groundingMetadata = o.groundingMetadata,
                   !.stage = "results"]
    ELSE [s EXCEPT !.error = FailedToGenerate(o.message), !.stage = "error"]

\* a faulty handleReset: the edit state is forgotten
handleResetKeepingEdit(s) ==
    [s EXCEPT !.stage = "upload", !.originalImageFile = NULL, !.originalImageUrl = NULL,
              !.designs = <<>>, !.groundingMetadata = NULL, !.error = NoError,
              !.activeDesignIndex = 0,
              !.modalImageUrl = NoModalImage, !.isModalOpen = FALSE]

handleReset(s) ==
    [s EXCEPT !.stage = "upload", !.originalImageFile = NULL, !.originalImageUrl = NULL,
              !.designs = <<>>, !.groundingMetadata = NULL, !.error = NoError,
              !.activeDesignIndex = 0, !.editedImageUrl = NULL, !.isEditing = FALSE,
              !.modalImageUrl = NoModalImage, !.isModalOpen = FALSE]

\* a faulty handleSelectDesign: App.tsx's comparison with the active index is missing
handleSelectDesignUnguarded(s, index) ==
    [s EXCEPT !.activeDesignIndex = index, !.editedImageUrl = NULL]

handleSelectDesign(s, index) ==
    IF appVersion = "App.tsx" /\ index = s.activeDesignIndex THEN s
    ELSE [s EXCEPT !.activeDesignIndex = index, !.editedImageUrl = NULL]

\* a faulty handleEditPrompt: the base is always the design's own image
handleEditPromptFromDesign(s, prompt) ==
    IF ~Defined(s.designs, s.activeDesignIndex) THEN s
    ELSE [s EXCEPT !.isEditing = TRUE, !.error = NoError,
                   !.editReqs = Add(@, [base |-> At(s.designs, s.activeDesignIndex).redesignedImageUrl,
                                        index |-> s.activeDesignIndex])]

\* handleEditPrompt up to its await
handleEditPrompt(s, prompt) ==
    IF ~Defined(s.designs, s.activeDesignIndex) THEN s
    ELSE LET baseImageUrl == IF s.editedImageUrl # NULL THEN s.editedImageUrl
                             ELSE At(s.designs, s.activeDesignIndex).redesignedImageUrl
         IN  [s EXCEPT !.isEditing = TRUE, !.error = NoError,
                       !.editReqs = Add(@, [base |-> baseImageUrl,
                                            index |-> s.activeDesignIndex])]

\* a faulty continuation: the catch block drops the override
editSettledClearing(s, o) ==
    [s EXCEPT !.editedImageUrl = IF o.ok THEN o.url ELSE NULL, !.isEditing = FALSE]

\* handleEditPrompt after its await: try tail or catch, then finally
editSettled(s, o) ==
    LET t == IF o.ok THEN [s EXCEPT !.editedImageUrl = o.url] ELSE s
    IN  [t EXCEPT !.isEditing = FALSE]

handleClearEdit(s) == [s EXCEPT !.editedImageUrl = NULL]

handleImageClick(s, url) == [s EXCEPT !.modalImageUrl = url, !.isModalOpen = TRUE]

handleCloseModal(s) ==
    IF appVersion = "App.tsx" THEN [s EXCEPT !.modalImageUrl = NULL]
    ELSE [s EXCEPT !.isModalOpen = FALSE]

\* ResultsView
getImageForDesign(s, index) ==
    IF index = s.activeDesignIndex /\ s.editedImageUrl # NULL THEN s.editedImageUrl
    ELSE At(s.designs, index).redesignedImageUrl

\* renderContent and the mounting it causes.  The results case renders
\* Sidebar, which reads activeDesign.designDescription and throws when
\* designs[activeDesignIndex] is undefined; part_000 first falls back to
\* handleReset when there is nothing to show.  An unmounted component loses its
\* state, and the geolocation callbacks it left behind no longer reach a
\* mounted ImageUploader.
renderContent(s) ==
    LET s1 == IF /\ appVersion = "part_000"
                 /\ s.stage = "results"
                 /\ ~(s.originalImageUrl # NULL /\ Len(s.designs) > 0)
              THEN handleReset(s) ELSE s
        s2 == IF s1.stage = "results" /\ ~Defined(s1.designs, s1.activeDesignIndex)
              THEN [s1 EXCEPT !.crashed = TRUE] ELSE s1
        s3 == IF s2.stage # "upload" \/ s2.crashed
              THEN [s2 EXCEPT !.locationQuery = <<>>, !.isGettingLocation = FALSE,
                              !.geoReqs = Orphaned(@)]
              ELSE s2
    IN  IF s3.stage # "results" \/ s3.crashed THEN [s3 EXCEPT !.editPrompt = <<>>] ELSE s3

\* a handler ran and React rendered its result; op names it when it is one of
\* App's session handlers or their continuations ("-" for an event that stays
\* inside a child component or only opens or closes the modal)
Rendered(s, op) ==
    LET r == renderContent(s)
    IN  /\ stage' = r.stage
        /\ originalImageFile' = r.originalImageFile
        /\ originalImageUrl' = r.originalImageUrl
        /\ designs' = r.designs
        /\ groundingMetadata' = r.groundingMetadata
        /\ error' = r.error
        /\ activeDesignIndex' = r.activeDesignIndex
        /\ editedImageUrl' = r.editedImageUrl
        /\ isEditing' = r.isEditing
        /\ modalImageUrl' = r.modalImageUrl
        /\ isModalOpen' = r.isModalOpen
        /\ locationQuery' = r.locationQuery
        /\ isGettingLocation' = r.isGettingLocation
        /\ editPrompt' = r.editPrompt
        /\ geoReqs' = r.geoReqs
        /\ genReqs' = r.genReqs
        /\ editReqs' = r.editReqs
        /\ crashed' = r.crashed
        /\ last' = IF op = "-" THEN last ELSE op
        /\ UNCHANGED <<appVersion, service, gen, run, fn, sidebar>>

\* the page takes a click: the tree is mounted and no modal overlay covers it
Interactive == ~crashed /\ ~ModalOpen(Cur)
UploaderShown == Interactive /\ stage = "upload"
SidebarShown == Interactive /\ stage = "results"

Commit(s, op) == Rendered(s, op) /\ UNCHANGED uploads

(* ImageUploader *)

\* handleFileChange / handleDrop: the drop zone shows while there is no preview
SelectFile ==
    /\ UploaderShown /\ originalImageUrl = NULL
    /\ uploads < MaxUploads
    /\ uploads' = uploads + 1
    /\ Rendered(handleImageUpload(Cur, Files[uploads + 1]), "handleImageUpload")

\* onChange of the location input
TypeLocation(q) ==
    /\ UploaderShown /\ originalImageUrl # NULL
    /\ locationQuery # q
    /\ Commit([Cur EXCEPT !.locationQuery = q], "-")

\* handleUseCurrentLocation; its callbacks keep the onGenerate of this render
UseCurrentLocation ==
    /\ UploaderShown /\ originalImageUrl # NULL
    /\ ~isGettingLocation
    /\ InFlight(Cur) < MaxInFlight
    /\ Commit([Cur EXCEPT !.isGettingLocation = TRUE,
                          !.geoReqs = Add(@, [file |-> originalImageFile, live |-> TRUE])],
              "-")

\* getCurrentPosition's success callback
GeoSuccess(r) ==
    /\ ~crashed
    /\ r \in Pending(geoReqs)
    /\ LET s1 == handleGenerate([Cur EXCEPT !.geoReqs = Remove(@, r)], r.file, "coords")
       IN  Commit(IF r.live THEN [s1 EXCEPT !.isGettingLocation = FALSE] ELSE s1,
                  "handleGenerate")

\* a faulty error callback: the generation is started without a location
GeoErrorGenerating(r) ==
    /\ ~crashed
    /\ r \in Pending(geoReqs)
    /\ LET s1 == handleGenerate([Cur EXCEPT !.geoReqs = Remove(@, r)], r.file, NULL)
       IN  Commit(IF r.live THEN [s1 EXCEPT !.isGettingLocation = FALSE] ELSE s1,
                  "handleGenerate")

\* getCurrentPosition's error callback
GeoError(r) ==
    /\ ~crashed
    /\ r \in Pending(geoReqs)
    /\ LET s1 == [Cur EXCEPT !.geoReqs = Remove(@, r)]
       IN  Commit(IF r.live THEN [s1 EXCEPT !.isGettingLocation = FALSE] ELSE s1, "-")

\* handleGenerateWithQuery
GenerateWithQuery ==
    /\ UploaderShown /\ originalImageUrl # NULL
    /\ IF trim(locationQuery) = <<>>
       THEN Commit(Cur, "-")
       ELSE /\ InFlight(Cur) < MaxInFlight
            /\ Commit(handleGenerate(Cur, originalImageFile, "query"), "handleGenerate")

(* settlement of a pending generateDesignConcept promise *)
GenerateSettles(r, o) ==
    /\ ~crashed
    /\ r \in Pending(genReqs)
    /\ Commit(generateSettled([Cur EXCEPT !.genReqs = Remove(@, r)], o),
              IF o.ok THEN "generateResolved" ELSE "generateRejected")

\* "Remove image" in ImageUploader, "Start Over" in Sidebar, "Try Again" on the error page
ClickReset ==
    /\ Interactive
    /\ \/ stage = "upload" /\ originalImageUrl # NULL
       \/ stage = "results"
       \/ stage = "error"
    /\ Commit(handleReset(Cur), "handleReset")

(* Sidebar *)

\* a design tab
ClickDesignTab(index) ==
    /\ SidebarShown
    /\ Defined(designs, index)
    /\ Commit(handleSelectDesign(Cur, index), "handleSelectDesign")

\* onChange of the edit textarea (disabled while isEditing)
TypeEditPrompt(t) ==
    /\ SidebarShown /\ ~isEditing
    /\ editPrompt # t
    /\ Commit([Cur EXCEPT !.editPrompt = t], "-")

\* handleSubmitEdit
SubmitEdit ==
    /\ SidebarShown
    /\ IF trim(editPrompt) = <<>> \/ isEditing
       THEN Commit(Cur, "-")
       ELSE /\ InFlight(Cur) < MaxInFlight
            /\ Commit([handleEditPrompt(Cur, editPrompt) EXCEPT !.editPrompt = <<>>],
                      "handleEditPrompt")

(* settlement of a pending editImageWithPrompt promise *)
EditSettles(r, o) ==
    /\ ~crashed
    /\ r \in Pending(editReqs)
    /\ Commit(editSettled([Cur EXCEPT !.editReqs = Remove(@, r)], o),
              IF o.ok THEN "editResolved" ELSE "editRejected")

\* the Clear button shows while there is an edited image
ClickClearEdit ==
    /\ SidebarShown /\ editedImageUrl # NULL
    /\ Commit(handleClearEdit(Cur), "handleClearEdit")

(* ResultsView and Modal *)

ClickImage(index) ==
    /\ Interactive /\ stage = "results"
    /\ Defined(designs, index)
    /\ Commit(handleImageClick(Cur, getImageForDesign(Cur, index)), "-")

CloseModal ==
    /\ ~crashed /\ ModalOpen(Cur)
    /\ Commit(handleCloseModal(Cur), "-")

(* The handlers called as the functions App defines, whatever is on screen: *)
(* a caller holding App's props, or a test of the state machine            *)

CallImageUpload(file) ==
    /\ ~crashed
    /\ Commit(handleImageUpload(Cur, file), "handleImageUpload")

\* the handleGenerate of the current render: its closure holds originalImageFile
CallGenerate ==
    /\ ~crashed
    /\ originalImageFile = NULL \/ InFlight(Cur) < MaxCalls
    /\ Commit(handleGenerate(Cur, originalImageFile, "query"),
              IF originalImageFile = NULL THEN "handleGenerateNoImage" ELSE "handleGenerate")

CallReset == ~crashed /\ Commit(handleReset(Cur), "handleReset")

CallSelectDesign(index) == ~crashed /\ Commit(handleSelectDesign(Cur, index), "handleSelectDesign")

CallEditPrompt ==
    /\ ~crashed
    /\ ~Defined(designs, activeDesignIndex) \/ InFlight(Cur) < MaxCalls
    /\ Commit(handleEditPrompt(Cur, <<"x">>), "handleEditPrompt")

CallClearEdit == ~crashed /\ Commit(handleClearEdit(Cur), "handleClearEdit")

CallImageClick(index) ==
    /\ ~crashed
    /\ Defined(designs, index)
    /\ Commit(handleImageClick(Cur, getImageForDesign(Cur, index)), "-")

CallCloseModal == ~crashed /\ Commit(handleCloseModal(Cur), "-")

-----------------------------------------------------------------------------
(* generateDesignConcept called on its own *)

NoAnswers == [prep |-> FALSE, plan |-> PlanResponse("reject", "none", <<>>),
              synth |-> <<>>, crop |-> <<>>, grounding |-> NULL]
GenIdle == [pc |-> "idle", x |-> NoAnswers, out |-> Reject(NoError)]

\* what the file reads and the remote may answer to one call
GenAnswers ==
    [prep : BOOLEAN,
     plan : PlanResponsesOver(PlanPrefixes(MaxPlans)),
     synth : [1..MaxPlans -> SynthResponses],
     crop : [1..2 -> BOOLEAN],
     grounding : Groundings]

GenCall ==
    /\ gen.pc = "idle"
    /\ \E x \in GenAnswers : gen' = [pc |-> "called", x |-> x, out |-> Reject(NoError)]
    /\ UNCHANGED <<appVars, run, fn, sidebar>>

GenSettle ==
    /\ gen.pc = "called"
    /\ gen' = [gen EXCEPT !.pc = "settled", !.out = generateDesignConcept(service, gen.x)]
    /\ UNCHANGED <<appVars, run, fn, sidebar>>

GenReturn ==
    /\ gen.pc = "settled"
    /\ gen' = GenIdle
    /\ UNCHANGED <<appVars, run, fn, sidebar>>


-----------------------------------------------------------------------------
(* generateDesignConcept step by step: the calls it issues, the answers as     *)
(* they arrive and the continuations that run when an awaited promise settles. *)

\* a faulty plan check: the number of entries is not looked at
planOfUnchecked(svc, p) ==
    IF p.fmt \notin {"json", "jsonNoDesigns"} THEN NoPlans(PlanInvalid)
    ELSE IF p.fmt = "jsonNoDesigns" THEN NoPlans(PlanMalformed)
    ELSE Plans(p.designs)

\* the plans a revision goes on with for a planning answer, or the error it throws
planOf(svc, p) ==
    CASE svc = "parallel" ->
             IF p.fmt \notin {"json", "jsonNoDesigns"} THEN NoPlans(PlanInvalid)
             ELSE IF p.fmt = "jsonNoDesigns" \/ Len(p.designs) # 2 THEN NoPlans(PlanMalformed)
             ELSE Plans(p.designs)
      [] svc = "seqJson" ->
             IF p.fmt \in {"garbage", "delim"} THEN NoPlans(NoJsonFound)
             ELSE IF p.fmt = "badjson" THEN NoPlans(JsonSyntaxError)
             ELSE IF p.fmt = "jsonNoDesigns" THEN NoPlans(NotIterable)
             ELSE Plans(p.designs)
      [] svc = "seqDelim" ->
             IF p.fmt # "delim" THEN NoPlans(DelimUnexpected)
             ELSE Plans(parseResponse(p.designs))

NotAnswered == "none"

RunIdle == [pc |-> "idle", answer |-> PlanResponse("reject", "none", <<>>),
            grounding |-> NULL, plan |-> <<>>, planCalls |-> 0, issued |-> 0,
            answered |-> [k \in 1..MaxPlans |-> NotAnswered], completed |-> <<>>,
            crop |-> [k \in 1..MaxPlans |-> "none"], cropped |-> <<>>,
            k |-> 0, acc |-> <<>>, out |-> Reject(NoError)]

\* a faulty join: the images are taken in the order the calls completed
finalDesignsAsCompleted(r) ==
    [i \in 1..Len(r.plan) |->
        [designTitle |-> r.plan[i].designTitle,
         redesignedImageUrl |-> croppedUrl(dataUrl(r.answered[r.completed[i]])),
         designDescription |-> r.plan[i].designDescription]]

\* finalDesigns of the first revision: imageGenResponses[index] for design index
finalDesigns(r) ==
    [i \in 1..Len(r.plan) |->
        [designTitle |-> r.plan[i].designTitle,
         redesignedImageUrl |-> croppedUrl(dataUrl(r.answered[i])),
         designDescription |-> r.plan[i].designDescription]]

Settled(r, out) == [r EXCEPT !.pc = "done", !.out = out]

\* the call: the local reads, then the planning call
RunCall ==
    /\ run.pc = "idle"
    /\ \E prep \in BOOLEAN :
           run' = IF service = "parallel" /\ ~prep THEN Settled(run, Reject(ReadError))
                  ELSE [run EXCEPT !.pc = "planning", !.planCalls = @ + 1]
    /\ UNCHANGED <<appVars, gen, fn, sidebar>>

\* the planning call settles and the function runs on to its next await
RunPlanAnswer ==
    /\ run.pc = "planning"
    /\ \E p \in PlanResponsesOver(PlanPrefixes(MaxPlans)), g \in Groundings :
           LET parsed == planOf(service, p)
               r == [run EXCEPT !.answer = p, !.grounding = g, !.plan = parsed.designs]
           IN  run' = IF p.kind = "reject" THEN Settled([r EXCEPT !.plan = <<>>], Reject(RemoteError))
                      ELSE IF ~parsed.ok THEN Settled(r, Reject(parsed.error))
                      ELSE IF service = "parallel"
                           THEN [r EXCEPT !.pc = "awaitAll", !.issued = Len(parsed.designs)]
                      ELSE IF parsed.designs = <<>> THEN Settled(r, Resolve(<<>>, g))
                      ELSE [r EXCEPT !.pc = "loop", !.k = 1, !.issued = 1]
    /\ UNCHANGED <<appVars, gen, fn, sidebar>>

\* the remote answers a synthesis call that is out
RunSynthAnswer ==
    /\ run.pc \in {"awaitAll", "loop"}
    /\ \E k \in 1..run.issued, resp \in SynthResponses :
           /\ run.answered[k] = NotAnswered
           /\ run' = [run EXCEPT !.answered[k] = resp, !.completed = Append(@, k)]
    /\ UNCHANGED <<appVars, gen, fn, sidebar>>

\* an image of the second map finishes loading in cropToOriginalAspectRatio, or fails to
RunCropDone ==
    /\ run.pc = "cropping"
    /\ \E k \in 1..Len(run.plan), loaded \in BOOLEAN :
           /\ run.crop[k] = "pending"
           /\ run' = [run EXCEPT !.crop[k] = IF loaded THEN "done" ELSE "failed",
                                 !.cropped = Append(@, k)]
    /\ UNCHANGED <<appVars, gen, fn, sidebar>>

\* the continuation after `await Promise.all(imageGenerationPromises)`
ResumeAfterSynthesis ==
    /\ run.pc = "awaitAll"
    /\ LET n == Len(run.plan)
           missing == {k \in 1..n : ~hasInlineData(run.answered[k])}
       IN  /\ \/ \E k \in 1..n : run.answered[k] = "reject"
              \/ \A k \in 1..n : run.answered[k] # NotAnswered
           /\ run' = IF \E k \in 1..n : run.answered[k] = "reject"
                     THEN Settled(run, Reject(RemoteError))
                     ELSE IF missing # {}
                          THEN Settled(run, Reject(MissingImage(run.plan[Min(missing)].designTitle)))
                     ELSE [run EXCEPT !.pc = "cropping",
                                      !.crop = [k \in 1..MaxPlans |->
                                                   IF k <= n THEN "pending" ELSE "none"]]
    /\ UNCHANGED <<appVars, gen, fn, sidebar>>

\* the continuation after `await Promise.all(parsedResponse.designs.map(async ...))`
ResumeAfterCrops ==
    /\ run.pc = "cropping"
    /\ LET n == Len(run.plan)
       IN  /\ \/ \E k \in 1..n : run.crop[k] = "failed"
              \/ \A k \in 1..n : run.crop[k] = "done"
           /\ run' = IF \E k \in 1..n : run.crop[k] = "failed"
                     THEN Settled(run, Reject(CropError))
                     ELSE Settled(run, Resolve(finalDesigns(run), run.grounding))
    /\ UNCHANGED <<appVars, gen, fn, sidebar>>

\* the continuation after `await ai.models.generateContent` in the for loop
ResumeLoop ==
    /\ run.pc = "loop"
    /\ run.answered[run.k] # NotAnswered
    /\ LET resp == run.answered[run.k]
           acc == IF hasInlineData(resp)
                  THEN Append(run.acc, run.plan[run.k] @@ [redesignedImageUrl |-> dataUrl(resp)])
                  ELSE run.acc
       IN  run' = IF resp = "reject" THEN Settled(run, Reject(RemoteError))
                  ELSE IF run.k < Len(run.plan)
                       THEN [run EXCEPT !.acc = acc, !.k = @ + 1, !.issued = @ + 1]
                  ELSE Settled([run EXCEPT !.acc = acc], Resolve(acc, run.grounding))
    /\ UNCHANGED <<appVars, gen, fn, sidebar>>

\* the caller has the settlement
RunReturn ==
    /\ run.pc = "done"
    /\ run' = RunIdle
    /\ UNCHANGED <<appVars, gen, fn, sidebar>>

NextRun ==
    \/ RunCall
    \/ RunPlanAnswer
    \/ RunSynthAnswer
    \/ RunCropDone
    \/ ResumeAfterSynthesis
    \/ ResumeAfterCrops
    \/ ResumeLoop
    \/ RunReturn


(* the helper functions applied on their own *)

FnIdle == [op |-> "idle", in |-> <<>>, out |-> <<>>]

\* resizeImage pads the upload, cropToOriginalAspectRatio crops a synthesis result
ApplyGeometry ==
    /\ fn.op = "idle"
    /\ \E w \in 1..MaxSide, h \in 1..MaxSide, t \in 0..MaxTarget :
           fn' = [op |-> "geometry",
                  in |-> [width |-> w, height |-> h, target |-> t],
                  out |-> [drawn |-> resizeImage(w, h, t),
                           cropped |-> cropToOriginalAspectRatio(w, h, t)]]
    /\ UNCHANGED <<appVars, gen, run, sidebar>>

\* a client builds a reference from an inline image part and dataUrlToPart reads it
ApplyCodec ==
    /\ fn.op = "idle"
    /\ \E mimeType \in MimeTypes, data \in Payloads :
           fn' = [op |-> "codec",
                  in |-> [mimeType |-> mimeType, data |-> data],
                  out |-> dataUrlToPart(newImageUrl(mimeType, data))]
    /\ UNCHANGED <<appVars, gen, run, sidebar>>

\* editImageWithPrompt of a revision is handed a base reference
ApplyEdit ==
    /\ fn.op = "idle"
    /\ \E svc \in Services, baseImageUrl \in References :
           fn' = [op |-> "edit",
                  in |-> [svc |-> svc, baseImageUrl |-> baseImageUrl],
                  out |-> editRequest(svc, baseImageUrl)]
    /\ UNCHANGED <<appVars, gen, run, sidebar>>

\* generateDesignConcept of a revision builds its planning call for a location
ApplyPlannerRequest ==
    /\ fn.op = "idle"
    /\ \E svc \in Services, location \in LocationStates :
           fn' = [op |-> "plannerRequest",
                  in |-> [svc |-> svc, location |-> location],
                  out |-> plannerRequest(svc, location)]
    /\ UNCHANGED <<appVars, gen, run, sidebar>>

\* generateDesignConcept of a JSON revision reads the planning response's text
ApplyParsePlan ==
    /\ fn.op = "idle"
    /\ \E svc \in {"parallel", "seqJson"}, before \in Surroundings, body \in PlanBodies,
          after \in Surroundings :
           fn' = [op |-> "parsePlan",
                  in |-> [svc |-> svc, before |-> before, body |-> body, after |-> after,
                          text |-> before \o body.text \o after],
                  out |-> parsePlan(svc, before \o body.text \o after)]
    /\ UNCHANGED <<appVars, gen, run, sidebar>>

\* generateDesign is called and the model answers with an image and a product text
ApplyGenerateDesign ==
    /\ fn.op = "idle"
    /\ \E hasImage \in BOOLEAN, fenced \in BOOLEAN, before \in {<<>>, <<"w">>},
          body \in ProductBodies, after \in {<<>>, <<"w">>, <<FenceClose>>} :
           LET responseText == before \o (IF fenced THEN <<FenceOpen>> ELSE <<>>) \o body
                                 \o (IF fenced THEN <<FenceClose>> ELSE <<>>) \o after
           IN  fn' = [op |-> "generateDesign",
                      in |-> [hasImage |-> hasImage, fenced |-> fenced, body |-> body,
                              text |-> responseText],
                      out |-> generateDesign(hasImage, <<"image", "/", "png">>, <<"QUJD">>,
                                             responseText)]
    /\ UNCHANGED <<appVars, gen, run, sidebar>>

FnReturn ==
    /\ fn.op # "idle"
    /\ fn' = FnIdle
    /\ UNCHANGED <<appVars, gen, run, sidebar>>

NextFn ==
    \/ ApplyGeometry
    \/ ApplyCodec
    \/ ApplyEdit
    \/ ApplyPlannerRequest
    \/ ApplyParsePlan
    \/ ApplyGenerateDesign
    \/ FnReturn

(***************************************************************************)
(* Sidebar: the nearby stores.  A string is a sequence of fragments; an    *)
(* absent property is UNDEFINED, the empty string is <<>>.                 *)
(***************************************************************************)
MaxChunks == 2

Truthy(s) == s # UNDEFINED /\ s # <<>>

WebChunk == [maps |-> FALSE, uri |-> UNDEFINED, title |-> UNDEFINED, subtitle |-> UNDEFINED]
MapsChunk(uri, title, subtitle) ==
    [maps |-> TRUE, uri |-> uri, title |-> title, subtitle |-> subtitle]

GroundingChunks ==
    { WebChunk,
      MapsChunk(<<"maps/1">>, UNDEFINED, UNDEFINED),
      MapsChunk(<<"maps/1">>, <<>>, UNDEFINED),
      MapsChunk(UNDEFINED, <<"Fine", " ", "Furniture">>, UNDEFINED),
      MapsChunk(<<>>, <<"Fine", " ", "Furniture">>, <<"Oak", " ", "Ave">>),
      MapsChunk(<<"maps/1">>, <<"Fine", " ", "Furniture">>, <<"Main", " ", "St">>),
      MapsChunk(<<"maps/2">>, <<"Pottery", " ", "Barn">>, UNDEFINED),
      MapsChunk(<<"maps/3">>, <<"Target">>, <<>>),
      MapsChunk(<<"maps/4">>, <<"Joe's">>, <<"Elm", " ", "St">>),
      MapsChunk(<<"maps/5">>, <<"Furniture", " ", "&", " ", "Decor">>, UNDEFINED) }

NoMetadata == [present |-> FALSE, hasChunks |-> FALSE, groundingChunks |-> <<>>]
MetadataWithoutChunks == [present |-> TRUE, hasChunks |-> FALSE, groundingChunks |-> <<>>]
MetadataOf(chunks) == [present |-> TRUE, hasChunks |-> TRUE, groundingChunks |-> chunks]
GroundingMetadatas ==
    {NoMetadata, MetadataWithoutChunks}
        \cup {MetadataOf(c) : c \in StringsOver(GroundingChunks, 0, MaxChunks)}

toLowerCase(s) ==
    [i \in DOMAIN s |->
        CASE s[i] = "Furniture" -> "furniture"
          [] s[i] = "Decor" -> "decor"
          [] s[i] = "Pottery" -> "pottery"
          [] s[i] = "Barn" -> "barn"
          [] s[i] = "Target" -> "target"
          [] s[i] = "Fine" -> "fine"
          [] s[i] = "Joe's" -> "joe's"
          [] s[i] = "Main" -> "main"
          [] s[i] = "Elm" -> "elm"
          [] s[i] = "Oak" -> "oak"
          [] s[i] = "Ave" -> "ave"
          [] s[i] = "St" -> "st"
          [] OTHER -> s[i]]

includes(s, kw) == \E i \in 1..(Len(s) - Len(kw) + 1) : SubSeq(s, i, i + Len(kw) - 1) = kw

getStoreCategory(title) ==
    LET lower == toLowerCase(title) IN
    IF includes(lower, <<"furniture">>) THEN "Furniture"
    ELSE IF \/ includes(lower, <<"decor">>)
            \/ includes(lower, <<"home", " ", "goods">>)
            \/ includes(lower, <<"pottery">>)
            \/ includes(lower, <<"crate">>)
            \/ includes(lower, <<"barn">>)
            \/ includes(lower, <<"world", " ", "market">>) THEN "Home Decor"
    ELSE IF \/ includes(lower, <<"department">>)
            \/ includes(lower, <<"target">>)
            \/ includes(lower, <<"walmart">>)
            \/ includes(lower, <<"kohls">>) THEN "Department Store"
    ELSE "General"

\* a faulty filter: a chunk with a title passes whether or not it has a URI
isStoreByTitle(chunk) == chunk.maps /\ Truthy(chunk.title)
isStore(chunk) == chunk.maps /\ Truthy(chunk.uri) /\ Truthy(chunk.title)

storeChunks(metadata) ==
    IF metadata.present /\ metadata.hasChunks
    THEN SelectSeq(metadata.groundingChunks, isStore)
    ELSE <<>>

\* Array.from(Set): 'All' first, then each category where it first occurs
RECURSIVE categoriesOf(_, _)
categoriesOf(stores, seen) ==
    IF stores = <<>> THEN seen
    ELSE LET c == getStoreCategory(Head(stores).title) IN
         categoriesOf(Tail(stores),
                      IF \E i \in DOMAIN seen : seen[i] = c THEN seen ELSE Append(seen, c))
availableCategories(metadata) == categoriesOf(storeChunks(metadata), <<"All">>)

hasCategory(store, category) == getStoreCategory(store.title) = category
filteredStores(metadata, activeFilter) ==
    IF activeFilter = "All" THEN storeChunks(metadata)
    ELSE SelectSeq(storeChunks(metadata), LAMBDA store : hasCategory(store, activeFilter))

encodeURIComponent(s) ==
    [i \in DOMAIN s |->
        CASE s[i] = " " -> "%20"
          [] s[i] = "," -> "%2C"
          [] s[i] = "&" -> "%26"
          [] s[i] = "/" -> "%2F"
          [] OTHER -> s[i]]

mapQueryOf(store) ==
    <<"https://www.google.com/maps/embed/v1/place?key=", "process.env.API_KEY", "&q=">>
        \o encodeURIComponent(store.title \o <<",", " ">>
                                \o (IF Truthy(store.subtitle) THEN store.subtitle ELSE <<>>))

SidebarUnmounted ==
    [mounted |-> FALSE, groundingMetadata |-> NoMetadata, activeFilter |-> "All",
     selectedStore |-> <<>>, mapQuery |-> <<>>, effect |-> FALSE, last |-> "unmount"]

handleStoreClick(s, store) ==
    [s EXCEPT !.selectedStore = <<store>>, !.mapQuery = mapQueryOf(store)]

\* a faulty effect: an empty list leaves the selection and the map as they were
storesEffectKeeping(s) ==
    LET stores == filteredStores(s.groundingMetadata, s.activeFilter) IN
    IF Len(stores) > 0 THEN handleStoreClick(s, stores[1]) ELSE s
storesEffect(s) ==
    LET stores == filteredStores(s.groundingMetadata, s.activeFilter) IN
    IF Len(stores) > 0 THEN handleStoreClick(s, stores[1])
    ELSE [s EXCEPT !.mapQuery = <<>>, !.selectedStore = <<>>]

\* App renders the Sidebar: state is initial, the effects run after the render
SidebarMount ==
    /\ ~sidebar.mounted
    /\ \E metadata \in GroundingMetadatas :
          sidebar' = [SidebarUnmounted EXCEPT !.mounted = TRUE, !.groundingMetadata = metadata,
                                              !.effect = TRUE, !.last = "mount"]
    /\ UNCHANGED <<appVars, gen, run, fn>>

\* App passes another groundingMetadata object: storeChunks and filteredStores
\* are recomputed, so the effect that depends on filteredStores is scheduled
SidebarMetadataChange ==
    /\ sidebar.mounted /\ ~sidebar.effect
    /\ \E metadata \in GroundingMetadatas :
          sidebar' = [sidebar EXCEPT !.groundingMetadata = metadata, !.effect = TRUE,
                                     !.last = "metadata"]
    /\ UNCHANGED <<appVars, gen, run, fn>>

\* a category button; setting the filter it already has renders nothing
SidebarSetActiveFilter ==
    /\ sidebar.mounted /\ ~sidebar.effect
    /\ Len(storeChunks(sidebar.groundingMetadata)) > 0
    /\ \E i \in DOMAIN availableCategories(sidebar.groundingMetadata) :
          LET category == availableCategories(sidebar.groundingMetadata)[i] IN
          /\ category # sidebar.activeFilter
          /\ sidebar' = [sidebar EXCEPT !.activeFilter = category, !.effect = TRUE,
                                        !.last = "filter"]
    /\ UNCHANGED <<appVars, gen, run, fn>>

\* a button of the store list
SidebarStoreClick ==
    /\ sidebar.mounted /\ ~sidebar.effect
    /\ Len(storeChunks(sidebar.groundingMetadata)) > 0
    /\ \E i \in DOMAIN filteredStores(sidebar.groundingMetadata, sidebar.activeFilter) :
          sidebar' = [handleStoreClick(sidebar,
                          filteredStores(sidebar.groundingMetadata, sidebar.activeFilter)[i])
                        EXCEPT !.last = "click"]
    /\ UNCHANGED <<appVars, gen, run, fn>>

\* the useEffect on [filteredStores]
SidebarEffect ==
    /\ sidebar.mounted /\ sidebar.effect
    /\ sidebar' = [storesEffect(sidebar) EXCEPT !.effect = FALSE, !.last = "effect"]
    /\ UNCHANGED <<appVars, gen, run, fn>>

\* App leaves the results stage
SidebarUnmount ==
    /\ sidebar.mounted
    /\ sidebar' = SidebarUnmounted
    /\ UNCHANGED <<appVars, gen, run, fn>>

NextSidebar ==
    \/ SidebarMount
    \/ SidebarMetadataChange
    \/ SidebarSetActiveFilter
    \/ SidebarStoreClick
    \/ SidebarEffect
    \/ SidebarUnmount

InitApp(versions, services) ==
    /\ appVersion \in versions
    /\ service \in services
    /\ stage = "upload"
    /\ originalImageFile = NULL
    /\ originalImageUrl = NULL
    /\ designs = <<>>
    /\ groundingMetadata = NULL
    /\ error = NoError
    /\ activeDesignIndex = 0
    /\ editedImageUrl = NULL
    /\ isEditing = FALSE
    /\ modalImageUrl = NoModalImage
    /\ isModalOpen = FALSE
    /\ locationQuery = <<>>
    /\ isGettingLocation = FALSE
    /\ editPrompt = <<>>
    /\ geoReqs = EmptyBag
    /\ genReqs = EmptyBag
    /\ editReqs = EmptyBag
    /\ crashed = FALSE
    /\ uploads = 0
    /\ last = "init"
    /\ gen = GenIdle
    /\ run = RunIdle
    /\ fn = FnIdle
    /\ sidebar = SidebarUnmounted

\* the promises settle
SettleGeneration ==
    \E r \in Pending(genReqs) : \E o \in Settlements(service) : GenerateSettles(r, o)
SettleEdit ==
    \E r \in Pending(editReqs) : \E o \in EditSettlements : EditSettles(r, o)
\* the steps of SettleGeneration and of SettleEdit, told by the request they
\* answer: nothing else takes a request out of genReqs or editReqs
GenerationSettled == ~crashed /\ \E r \in Pending(genReqs) : genReqs' = Remove(genReqs, r)
EditSettled == ~crashed /\ \E r \in Pending(editReqs) : editReqs' = Remove(editReqs, r)
Settle ==
    \/ SettleGeneration
    \/ SettleEdit

\* what a user can do to the session through the page, and what then comes back
Next ==
    \/ SelectFile
    \/ \E q \in Texts : TypeLocation(q)
    \/ UseCurrentLocation
    \/ \E r \in Pending(geoReqs) : GeoSuccess(r)
    \/ \E r \in Pending(geoReqs) : GeoError(r)
    \/ GenerateWithQuery
    \/ ClickReset
    \/ \E i \in 0..(MaxDesigns - 1) : ClickDesignTab(i)
    \/ \E t \in Texts : TypeEditPrompt(t)
    \/ SubmitEdit
    \/ ClickClearEdit
    \/ Settle

\* The modal overlay covers the page while it is open, so it only ever withholds
\* clicks: every session state reachable with it is reachable without it.
NextModal ==
    \/ Next
    \/ \E i \in 0..(MaxDesigns - 1) : ClickImage(i)
    \/ CloseModal

NextApi ==
    \/ CallImageUpload(Files[1])
    \/ CallGenerate
    \/ CallReset
    \/ \E i \in 0..(MaxDesigns - 1) : CallSelectDesign(i)
    \/ CallEditPrompt
    \/ CallClearEdit
    \/ \E i \in 0..(MaxDesigns - 1) : CallImageClick(i)
    \/ CallCloseModal
    \/ Settle

NextGen ==
    \/ GenCall
    \/ GenSettle
    \/ GenReturn

\* src/App.tsx with the first generateDesignConcept, driven through the page
Spec == InitApp({"App.tsx"}, {"parallel"}) /\ [][Next]_vars
\* the same with the image modal
SpecModal == InitApp({"App.tsx"}, {"parallel"}) /\ [][NextModal]_vars
\* both revisions of App, their handlers called directly
SpecApi == InitApp(AppVersions, {"parallel"}) /\ [][NextApi]_vars
\* the three revisions of generateDesignConcept, each call on its own
SpecGen == InitApp({"App.tsx"}, Services) /\ [][NextGen]_vars
\* the three revisions of generateDesignConcept, each call step by step
SpecRun == InitApp({"App.tsx"}, Services) /\ [][NextRun]_vars
\* src/App.tsx driven through the page, with every remote call answered in the end
SpecLive == Spec /\ WF_genReqs(GenerationSettled) /\ WF_editReqs(EditSettled)
\* src/App.tsx driven through the page, with each revision of the service plugged in
SpecServices == InitApp({"App.tsx"}, Services) /\ [][Next]_vars
\* the helper functions of the service, each application on its own
SpecFn == InitApp({"App.tsx"}, {"parallel"}) /\ [][NextFn]_vars

SpecSidebar == InitApp({"App.tsx"}, {"parallel"}) /\ [][NextSidebar]_vars

-----------------------------------------------------------------------------
(* Properties *)

\* the session as handleReset is to leave it
Cleared ==
    /\ stage = "upload"
    /\ originalImageFile = NULL /\ originalImageUrl = NULL
    /\ designs = <<>> /\ groundingMetadata = NULL
    /\ error = NoError
    /\ activeDesignIndex = 0 /\ editedImageUrl = NULL /\ isEditing = FALSE
    /\ ~ModalOpen(Cur)

\* generation and edit requests awaiting their answer
RemoteInFlight == BagCardinality(genReqs) + BagCardinality(editReqs)

\* C1: from every stage and whatever the session holds, a call of handleReset
\* leaves stage = upload, no image file and no image URL, no designs, no
\* grounding metadata, no error, activeDesignIndex 0, no edited image,
\* isEditing false and the modal closed.
C1_ResetClearsSession == [][CallReset => Cleared']_vars

\* C1 happens: handleReset was called while a generation was awaited
C1_ResetWhileGenerating ==
    /\ last = "handleReset" /\ genReqs # EmptyBag
    /\ stage = "upload" /\ originalImageFile = NULL

\* C2 as written: after a click on any design tab i, the current one included,
\* editedImageUrl is null and activeDesignIndex = i.
C2_SelectAlwaysClears ==
    [][\A i \in 0..(MaxDesigns - 1) :
          ClickDesignTab(i) => editedImageUrl' = NULL /\ activeDesignIndex' = i]_vars

\* C2 as the code has it: after a click on design tab i activeDesignIndex = i;
\* the edited image is cleared when i differs from the active index and is
\* kept when i is the active index.
C2_SelectClearsOnSwitch ==
    [][\A i \in 0..(MaxDesigns - 1) :
          ClickDesignTab(i) =>
              /\ activeDesignIndex' = i
              /\ i # activeDesignIndex => editedImageUrl' = NULL
              /\ i = activeDesignIndex => editedImageUrl' = editedImageUrl]_vars

\* C2 happens: the active design was selected again and its edit is still shown
C2_ReselectedWithEdit ==
    last = "handleSelectDesign" /\ stage = "results" /\ editedImageUrl # NULL

\* C3: whenever a generation succeeds and the stage becomes results, the designs
\* and the grounding metadata of the result are stored, activeDesignIndex is 0
\* and editedImageUrl is null.
C3_ResultsEnteredFresh ==
    [][\A r \in Pending(genReqs) : \A o \in Settlements(service) :
          (o.ok /\ stage # "results" /\ GenerateSettles(r, o)) =>
              /\ stage' = "results"
              /\ designs' = o.designs
              /\ groundingMetadata' = o.groundingMetadata
              /\ activeDesignIndex' = 0
              /\ editedImageUrl' = NULL]_vars

\* C3 fails: results were entered showing the edited image of an earlier session
C3_ResultsWithStaleEdit ==
    last = "generateResolved" /\ stage = "results" /\ editedImageUrl # NULL

\* C4: at most one generation or edit request is in flight at any time.
C4_OneRequestInFlight == RemoteInFlight <= 1

\* C4 fails: two generation requests are awaited at once
C4_TwoGenerations == BagCardinality(genReqs) = 2

\* C5: a call of handleGenerate while no image is held sets stage = error with
\* the message 'Please upload an image first.', does not enter generating and
\* issues no remote call.
C5_GenerateWithoutImage ==
    [][(originalImageFile = NULL /\ CallGenerate) =>
          /\ stage' = "error"
          /\ error' = UploadFirst
          /\ UNCHANGED <<genReqs, editReqs>>]_vars

\* C5 happens: handleGenerate was called after a reset, with the earlier request still awaited
C5_RefusedAfterReset ==
    /\ last = "handleGenerateNoImage" /\ stage = "error" /\ error = UploadFirst
    /\ genReqs # EmptyBag

\* C6: when generateDesignConcept fails, the stage goes from generating to
\* error, error holds the message derived from the failure, and designs and
\* groundingMetadata are left as they were.
C6_FailureFromGenerating ==
    [][\A r \in Pending(genReqs) : \A o \in Settlements(service) :
          (~o.ok /\ GenerateSettles(r, o)) =>
              /\ stage = "generating" /\ stage' = "error"
              /\ error' = FailedToGenerate(o.message)
              /\ UNCHANGED <<designs, groundingMetadata>>]_vars

\* C6 fails: a generation failed after the results of another were shown
C6_FailureAfterResults ==
    last = "generateRejected" /\ stage = "error" /\ designs # <<>>

\* C7: once stage = error it stays error under every event until handleReset is
\* called, and the only stage that follows error is upload.
C7_ErrorIsDeadEnd ==
    [][stage = "error" => (stage' = "error" \/ (stage' = "upload" /\ ClickReset))]_vars

\* C7 fails: an earlier request was answered on the error page and its results are shown
C7_ResultsAfterError ==
    last = "generateResolved" /\ stage = "results" /\ error # NoError

\* C8: an edit never changes the stage, and a failed edit assigns nothing:
\* editedImageUrl, designs and activeDesignIndex keep their values, and
\* isEditing returns to false.
C8_EditKeepsStage ==
    [][/\ SubmitEdit => stage' = "results"
       /\ \A r \in Pending(editReqs) : \A o \in EditSettlements :
             EditSettles(r, o) =>
                 /\ stage' = stage
                 /\ isEditing' = FALSE
                 /\ ~o.ok => UNCHANGED <<editedImageUrl, designs, activeDesignIndex>>]_vars

\* C8 happens: an edit of an already edited image failed and the page still shows the earlier edit
C8_FailedEditKeepsOverride ==
    /\ last = "editRejected" /\ stage = "results"
    /\ editedImageUrl # NULL /\ ~isEditing /\ editReqs = EmptyBag

C10_SequentialAllOrNothing ==
    (service \in {"seqJson", "seqDelim"} /\ gen.pc = "settled" /\ gen.out.ok) =>
        Len(gen.out.designs) = Len(gen.x.plan.designs)

\* C10 fails: two concepts were planned and one design was returned
C10_PartialResult ==
    /\ service \in {"seqJson", "seqDelim"} /\ gen.pc = "settled" /\ gen.out.ok
    /\ Len(gen.x.plan.designs) = 2 /\ Len(gen.out.designs) = 1

\* C14: a failed generation is not retried: after a failure, while the session
\* shows the error, no request is started until the user resets.
C14_NoRequestAfterFailure ==
    [][stage = "error" => (genReqs' \sqsubseteq genReqs /\ editReqs' \sqsubseteq editReqs)]_vars

\* C14 fails from here: the session shows the error and a position request is pending
C14_ErrorWithPendingPosition ==
    /\ stage = "error" /\ last = "generateRejected"
    /\ genReqs = EmptyBag /\ geoReqs # EmptyBag

\* C15: an edit request carries as base the edited image when there is one and
\* otherwise the redesignedImageUrl of the design at activeDesignIndex; when the
\* edit succeeds the edited image becomes the returned one, and designs and
\* activeDesignIndex stay as they are.
C15_EditBaseChains ==
    [][/\ (SubmitEdit /\ trim(editPrompt) # <<>> /\ ~isEditing) =>
              \E r \in Pending(editReqs') :
                  /\ editReqs' = Add(editReqs, r)
                  /\ r.base = IF editedImageUrl # NULL THEN editedImageUrl
                              ELSE designs[activeDesignIndex + 1].redesignedImageUrl
       /\ \A r \in Pending(editReqs) : \A o \in EditSettlements :
              (o.ok /\ EditSettles(r, o)) =>
                  /\ editedImageUrl' = o.url
                  /\ UNCHANGED <<designs, activeDesignIndex>>]_vars

\* C15 happens: an edit of an edited image is awaited
C15_EditOfEdit ==
    /\ stage = "results" /\ isEditing
    /\ \E r \in Pending(editReqs) : r.base \in EditImages /\ r.base = editedImageUrl

\* C16: for every width W > 0, height H > 0 and target size S the crop takes
\* the landscape / portrait-or-square branch that resizeImage took and computes
\* the rectangle resizeImage drew into: centred in the S x S square, with
\* width : height = W : H, and the canvas it fills is that rectangle cut to
\* whole pixels.
C16_CropMatchesLetterbox ==
    fn.op = "geometry" =>
        LET W == fn.in.width
            H == fn.in.height
            S == fn.in.target
            d == fn.out.drawn
            c == fn.out.cropped
        IN  /\ c.branch = d.branch
            /\ c.branch = (IF W > H THEN "landscape" ELSE "portraitOrSquare")
            /\ QEq(c.x, d.x) /\ QEq(c.y, d.y)
            /\ QEq(c.width, d.width) /\ QEq(c.height, d.height)
            /\ QEq(QAdd(QAdd(c.x, c.width), c.x), QInt(S))
            /\ QEq(QAdd(QAdd(c.y, c.height), c.y), QInt(S))
            /\ QEq(QMul(c.width, QInt(H)), QMul(c.height, QInt(W)))
            /\ ToLength(c.width) * c.width.d <= c.width.n
            /\ c.width.n < (ToLength(c.width) + 1) * c.width.d
            /\ ToLength(c.height) * c.height.d <= c.height.n
            /\ c.height.n < (ToLength(c.height) + 1) * c.height.d

\* C16 happens: a landscape image is padded above and below and the crop removes that
C16_LandscapePadded ==
    /\ fn.op = "geometry" /\ fn.in.width > fn.in.height /\ fn.in.target > 0
    /\ fn.out.cropped.branch = "landscape"
    /\ QGt(fn.out.cropped.y, QInt(0)) /\ QEq(fn.out.cropped.x, QInt(0))
    /\ QGt(QInt(fn.in.target), fn.out.cropped.height)

\* C17: for every MIME type and every base64 payload, dataUrlToPart of the
\* reference data:<mimeType>;base64,<payload> returns that MIME type and that
\* payload.
C17_CodecRoundTrip ==
    fn.op = "codec" =>
        /\ ~fn.out.threw
        /\ fn.out.inlineData.mimeType = fn.in.mimeType
        /\ fn.out.inlineData.data = fn.in.data

\* C17 happens: a MIME type with a slash and a padded payload went through
C17_SlashAndPadding ==
    /\ fn.op = "codec"
    /\ fn.in.mimeType = <<"image", "/", "png">>
    /\ fn.in.data = <<"QUJD", "=">>
    /\ ~fn.out.threw

\* the reference has a comma and, before it, a ':' followed by ';' with a
\* non-empty MIME type between them
WellFormed(ref) ==
    \E i, j, k \in DOMAIN ref :
        /\ i < j /\ j < k /\ j > i + 1
        /\ ref[i] = ":" /\ ref[j] = ";" /\ ref[k] = ","
        /\ \A n \in 1..(k - 1) : ref[n] # ","
        /\ \A n \in 1..(i - 1) : ref[n] # ":"
        /\ \A n \in (i + 1)..(j - 1) : ref[n] # ";"

\* C18: handed a reference without a comma or without a MIME-type header, the
\* edit client of every revision fails: no part is built with a substituted
\* MIME type or an undefined payload, and no remote call is issued.
C18_MalformedReferenceFails ==
    (fn.op = "edit" /\ ~WellFormed(fn.in.baseImageUrl)) =>
        /\ ~fn.out.issued
        /\ fn.out.error # NoError

\* C18 fails here: a reference without a comma is sent on as image/png with an
\* undefined payload
C18_SubstitutedPart ==
    /\ fn.op = "edit" /\ fn.in.svc # "parallel"
    /\ indexOf(fn.in.baseImageUrl, ",") = -1
    /\ fn.out.issued
    /\ fn.out.imagePart.mimeType = <<"image/png">>
    /\ fn.out.imagePart.data = UNDEFINED

\* the location values written into a prompt
EmbeddedIn(text) == {text[i] : i \in DOMAIN text} \cap (Queries \cup Coordinates)

ObjectAlone(in) ==
    /\ in.body.kind = "object"
    /\ in.before \notin {<<"{">>, <<"}">>} /\ in.after \notin {<<"{">>, <<"}">>}

\* C19: with the JSON strategy, a response whose object has exactly 2 entries
\* yields those 2 plans in their order; one with 1 or 3 entries fails; one
\* without '{' or without '}' fails.
C19_PlanParsing ==
    fn.op = "parsePlan" =>
        /\ (ObjectAlone(fn.in) /\ Len(fn.in.body.titles) = 2) =>
               /\ fn.out.ok
               /\ fn.out.designs = <<parsedEntry(fn.in.body.titles[1]),
                                     parsedEntry(fn.in.body.titles[2])>>
        /\ (ObjectAlone(fn.in) /\ Len(fn.in.body.titles) \in {1, 3}) => ~fn.out.ok
        /\ (indexOf(fn.in.text, "{") = -1 \/ indexOf(fn.in.text, "}") = -1) => ~fn.out.ok

\* C19 fails here: the second revision takes a plan of three entries
C19_ThreePlansAccepted ==
    /\ fn.op = "parsePlan" /\ fn.in.svc = "seqJson"
    /\ ObjectAlone(fn.in) /\ Len(fn.in.body.titles) = 3
    /\ fn.out.ok /\ Len(fn.out.designs) = 3

\* the planning answer is a JSON object whose designs array has exactly 2 entries
ValidPlan(p) == p.kind = "text" /\ p.fmt = "json" /\ Len(p.designs) = 2

\* C11: in the first (parallel) revision a planning answer without a parsable
\* JSON object, without designs or with a number of entries other than 2 fails
\* the call with no synthesis call issued; synthesis calls are out only after a
\* plan of exactly 2 entries was parsed.
C11_NoSynthesisWithoutPlan ==
    (service = "parallel" /\ run.pc \notin {"idle", "planning"}) =>
        /\ ~ValidPlan(run.answer) => (run.pc = "done" /\ ~run.out.ok /\ run.issued = 0)
        /\ run.issued > 0 => (ValidPlan(run.answer) /\ Len(run.plan) = 2 /\ run.issued = 2)

\* C11 happens: a plan of three entries is refused before any synthesis call
C11_ThreeEntriesRefused ==
    /\ service = "parallel" /\ run.pc = "done"
    /\ run.answer.fmt = "json" /\ Len(run.answer.designs) = 3
    /\ run.out.message = PlanMalformed /\ run.issued = 0

\* design i of the output is made of plan f[i] and of the image answered to the
\* synthesis call issued for it
MadeOf(d, f, url(_)) ==
    \A i \in DOMAIN d :
        /\ d[i].designTitle = run.answer.designs[f[i]].designTitle
        /\ d[i].designDescription = run.answer.designs[f[i]].designDescription
        /\ d[i].redesignedImageUrl = url(run.answered[f[i]])

\* C12: the designs a call resolves with are in the order of the planning
\* answer's entries, whatever the order in which the synthesis calls and the
\* crops completed: design i has the title and description of plan i and the
\* image answered to the synthesis call issued for plan i (in the sequential
\* revisions: of the i-th plan that was kept).
C12_DesignsInPlanOrder ==
    (run.pc = "done" /\ run.out.ok) =>
        LET d == run.out.designs
            n == Len(run.answer.designs)
            cropped(img) == croppedUrl(dataUrl(img))
        IN  /\ service = "parallel" =>
                   /\ Len(d) = n
                   /\ MadeOf(d, [i \in 1..n |-> i], cropped)
            /\ service # "parallel" =>
                   \E f \in [DOMAIN d -> 1..n] :
                       /\ \A i, j \in DOMAIN d : i < j => f[i] < f[j]
                       /\ MadeOf(d, f, dataUrl)

\* C12 happens: the second call and the second crop complete first, with
\* different images
C12_CompletedOutOfOrder ==
    /\ service = "parallel" /\ run.pc = "done" /\ run.out.ok
    /\ run.completed = <<2, 1>> /\ run.cropped = <<2, 1>>
    /\ run.answered[1] # run.answered[2]

\* C13: every synthesis call of a request is issued before any of them has
\* completed: no state has a completed synthesis call and a planned design
\* whose call is not yet issued.
C13_AllIssuedBeforeAnyCompletes ==
    (\E k \in 1..MaxPlans : run.answered[k] # NotAnswered) => run.issued = Len(run.plan)

\* C13 fails here: in a sequential revision the first call has completed and
\* the second is not issued
C13_SecondCallNotIssued ==
    /\ service = "seqJson" /\ run.pc = "loop"
    /\ Len(run.plan) = 2 /\ run.issued = 1
    /\ hasInlineData(run.answered[1])

\* C23: a failed or denied geolocation starts nothing: no generation request
\* is issued, the stage and the rest of the session stay as they are and the
\* ImageUploader that asked is no longer getting the location.  A submit with
\* a non-blank query then starts a generation with that query; a submit with
\* a blank query starts none.
C23_GeolocationFailureFallsBack ==
    [][/\ \A r \in Pending(geoReqs) :
              GeoError(r) =>
                  /\ genReqs' = genReqs /\ stage' = stage /\ last' = last
                  /\ error' = error /\ designs' = designs
                  /\ geoReqs' = Remove(geoReqs, r)
                  /\ r.live => ~isGettingLocation'
       /\ (GenerateWithQuery /\ trim(locationQuery) # <<>>) =>
              /\ stage' = "generating"
              /\ genReqs' = Add(genReqs, [file |-> originalImageFile, location |-> "query"])
       /\ (GenerateWithQuery /\ trim(locationQuery) = <<>>) =>
              /\ stage' = stage /\ genReqs' = genReqs /\ last' = last
      ]_vars

\* C23 happens: the position is awaited on the upload page with a query typed,
\* so the request can fail and the query be submitted
C23_PositionAwaitedWithQuery ==
    /\ stage = "upload" /\ isGettingLocation
    /\ \E r \in Pending(geoReqs) : r.live /\ r.file = originalImageFile
    /\ trim(locationQuery) # <<>>
    /\ genReqs = EmptyBag

\* C24: with every remote call answered in the end, a session that is
\* generating comes to results or error, and a session that is editing comes
\* to not editing.
C24_RequestsRunToCompletion ==
    /\ (stage = "generating") ~> (stage \in {"results", "error"})
    /\ isEditing ~> ~isEditing

\* C24 happens: a generation is awaited while an edit issued before a reset is
\* still out
C24_GeneratingWithEditPending ==
    /\ stage = "generating" /\ genReqs # EmptyBag
    /\ editReqs # EmptyBag

\* C25: an edit result only ever becomes the override of the design it was
\* requested for: when an edit request completes with an image, the design
\* that was active when it was issued is the active design.
C25_EditScopedToItsDesign ==
    [][\A r \in Pending(editReqs) : \A o \in EditSettlements :
           (o.ok /\ EditSettles(r, o)) =>
               /\ editedImageUrl' = o.url
               /\ r.index = activeDesignIndex']_vars

\* C25 fails from here: another design was selected while the edit is out
C25_OtherDesignSelectedWhileEditing ==
    /\ stage = "results" /\ isEditing
    /\ \E r \in Pending(editReqs) : r.index # activeDesignIndex

\* C26: a request still out after a reset is discarded: while the session is
\* back in upload, the completion of a generation or edit request changes none
\* of stage, designs, groundingMetadata, error and editedImageUrl.
C26_ResetDiscardsInFlight ==
    [][(stage = "upload" /\ (GenerationSettled \/ EditSettled)) =>
           UNCHANGED <<stage, designs, groundingMetadata, error, editedImageUrl>>]_vars

\* C26 fails from here: the session was reset with a generation and an edit out
C26_ResetWithRequestsPending ==
    /\ last = "handleReset" /\ stage = "upload" /\ originalImageFile = NULL
    /\ genReqs # EmptyBag /\ editReqs # EmptyBag

\* C27: whenever the stage is results, designs is not empty and
\* activeDesignIndex is an index into it, whichever revision of
\* generateDesignConcept the App calls.
C27_ActiveDesignDefined ==
    stage = "results" => (designs # <<>> /\ Defined(designs, activeDesignIndex))

\* C27 fails here: a sequential revision resolved with no design and the
\* results page could not render
C27_ResultsWithoutDesigns ==
    /\ service # "parallel" /\ stage = "results"
    /\ designs = <<>> /\ crashed

\* C28: whenever the stage is generating or results the session holds the
\* uploaded image (file and preview URL), and every generation that is out was
\* started for the file the session holds.
C28_SessionHoldsItsImage ==
    stage \in {"generating", "results"} =>
        /\ originalImageFile # NULL /\ originalImageUrl # NULL
        /\ \A r \in Pending(genReqs) : r.file = originalImageFile

\* C28 fails here: a generation runs for the first file while the session
\* holds the second
C28_GeneratingForAnotherFile ==
    /\ stage = "generating" /\ originalImageFile = Files[2]
    /\ \E r \in Pending(genReqs) : r.file = Files[1]

\* C29: isEditing is true exactly while an edit request is out.
C29_EditingIffRequestPending ==
    isEditing <=> (editReqs # EmptyBag)

\* C29 fails here: the reset cleared isEditing and the edit is still out
C29_ResetWhileEditing ==
    /\ last = "handleReset" /\ ~isEditing
    /\ editReqs # EmptyBag


(***************************************************************************)
(* C21.  The stores the Sidebar works with are exactly the grounding       *)
(* chunks that carry both a title and a URI, in their original order: a    *)
(* chunk lacking either is not in the list, is not the selected store and  *)
(* is not what the map query was built from, and without grounding         *)
(* metadata the list is empty.                                             *)
(***************************************************************************)
Carries(chunk) ==
    /\ chunk.maps
    /\ chunk.title # UNDEFINED /\ chunk.title # <<>>
    /\ chunk.uri # UNDEFINED /\ chunk.uri # <<>>
ChunksOf(metadata) ==
    IF metadata.present /\ metadata.hasChunks THEN metadata.groundingChunks ELSE <<>>
C21_StoresCarryTitleAndUri ==
    LET chunks == ChunksOf(sidebar.groundingMetadata)
        stores == storeChunks(sidebar.groundingMetadata)
        listed == filteredStores(sidebar.groundingMetadata, sidebar.activeFilter)
        carrying == {i \in DOMAIN chunks : Carries(chunks[i])}
    IN  /\ Len(stores) = Cardinality(carrying)
        /\ \A i \in carrying : stores[Cardinality({j \in carrying : j <= i})] = chunks[i]
        /\ \A k \in DOMAIN listed : Carries(listed[k])
        /\ \A k \in DOMAIN sidebar.selectedStore : Carries(sidebar.selectedStore[k])
        /\ sidebar.mapQuery # <<>> =>
              \E chunk \in GroundingChunks : Carries(chunk) /\ sidebar.mapQuery = mapQueryOf(chunk)
        /\ ~sidebar.groundingMetadata.present => stores = <<>>
C21_StoreAmongUnusableChunks ==
    LET chunks == ChunksOf(sidebar.groundingMetadata) IN
    /\ sidebar.mounted /\ ~sidebar.effect
    /\ sidebar.selectedStore # <<>>
    /\ Len(chunks) > 1
    /\ chunks[1].maps /\ chunks[1].title # UNDEFINED /\ chunks[1].title # <<>>
    /\ ~Carries(chunks[1])

(***************************************************************************)
(* C30.  Once the Sidebar's effects have run: if the filtered store list   *)
(* is not empty the selected store is one of its entries (the first one    *)
(* when the effect was the last thing to run) and the map query is built   *)
(* from that store; if the list is empty there is no selected store and    *)
(* the map query is empty.  Under the filter 'All' the filtered list is    *)
(* the full store list.                                                    *)
(***************************************************************************)
C30_SelectionFollowsFilteredStores ==
    LET stores == filteredStores(sidebar.groundingMetadata, sidebar.activeFilter) IN
    (sidebar.mounted /\ ~sidebar.effect) =>
        /\ stores # <<>> =>
              /\ \E i \in DOMAIN stores :
                    /\ sidebar.selectedStore = <<stores[i]>>
                    /\ sidebar.mapQuery = mapQueryOf(stores[i])
              /\ sidebar.last = "effect" => sidebar.selectedStore = <<stores[1]>>
        /\ stores = <<>> => (sidebar.selectedStore = <<>> /\ sidebar.mapQuery = <<>>)
        /\ sidebar.activeFilter = "All" => stores = storeChunks(sidebar.groundingMetadata)
C30_FilterOfAnEarlierAnswer ==
    /\ sidebar.mounted /\ ~sidebar.effect /\ sidebar.last = "effect"
    /\ sidebar.activeFilter # "All"
    /\ storeChunks(sidebar.groundingMetadata) # <<>>
    /\ filteredStores(sidebar.groundingMetadata, sidebar.activeFilter) = <<>>


(***************************************************************************)
(* C22.  Every identified object of a result generateDesign returns has a  *)
(* bounding box whose top, left, width and height lie in [0,1], with       *)
(* left+width <= 1 and top+height <= 1, whatever the product response      *)
(* held.                                                                   *)
(***************************************************************************)
InUnit(q) == 0 <= q.n /\ q.n <= q.d
WithinImage(box) ==
    /\ InUnit(box.top) /\ InUnit(box.left) /\ InUnit(box.width) /\ InUnit(box.height)
    /\ InUnit(QAdd(box.left, box.width))
    /\ InUnit(QAdd(box.top, box.height))
C22_BoundingBoxesWithinImage ==
    (fn.op = "generateDesign" /\ fn.out.ok) =>
        \A k \in DOMAIN fn.out.identifiedObjects :
            /\ fn.out.identifiedObjects[k].boundingBox # <<>>
            /\ \A b \in DOMAIN fn.out.identifiedObjects[k].boundingBox :
                  WithinImage(fn.out.identifiedObjects[k].boundingBox[b])
C22_BoxBeyondRightEdge ==
    /\ fn.op = "generateDesign" /\ fn.out.ok
    /\ \E k \in DOMAIN fn.out.identifiedObjects :
          LET boxes == fn.out.identifiedObjects[k].boundingBox IN
          /\ boxes # <<>>
          /\ InUnit(boxes[1].top) /\ InUnit(boxes[1].left)
          /\ InUnit(boxes[1].width) /\ InUnit(boxes[1].height)
          /\ ~InUnit(QAdd(boxes[1].left, boxes[1].width))

====
